---- MODULE Spec2Model ----
(***************************************************************************)
(* Verification model of the LucidPulls fix-production pipeline.          *)
(*                                                                         *)
(*   Spec       the Repo Orchestrator: LucidPulls.run_review, the worker   *)
(*              pool it drives, LucidPulls._process_repo /                 *)
(*              _analyze_and_fix, the signal handler and the shutdown      *)
(*              sequence of LucidPulls.start (src/src/main.py).            *)
(*   SpecApply  the Patch Applier: CodeAnalyzer.apply_fix                  *)
(*              (src/src/analyzers/code_analyzer.py).                      *)
(*   SpecParse  the Response Validator: CodeAnalyzer._parse_llm_response   *)
(*              and LLMFixResponse (src/src/analyzers/code_analyzer.py).   *)
(*   SpecThrottle  the Rate Limiter: GitHubRateLimiter.throttle and      *)
(*              _check_quota (src/src/git/rate_limiter.py).                *)
(*   SpecNights the pipeline run night after night over one RejectedFix    *)
(*              store (src/src/main.py, src/src/database/history.py).      *)
(*   SpecDeadline  the Deadline Enforcer: DeadlineEnforcer                 *)
(*              (src/src/scheduler.py).                                    *)
(*   SpecJson   _extract_json and _fix_json_newlines                       *)
(*              (src/src/analyzers/code_analyzer.py).                      *)
(*   SpecRetry  the retried operations: utils.retry, push_branch,          *)
(*              _clone_repo and the report delivery.                       *)
(*   SpecSize   apply_fix on fixes around its size limits.                 *)
(*   SpecSyntax the Syntax Verifier: CodeAnalyzer._validate_syntax and     *)
(*              the validators that run an external checker.               *)
(*   SpecGit    the clone's branches and working tree along the pipeline   *)
(*              (src/src/git/repo_manager.py).                             *)
(*                                                                         *)
(* The specifications share one variable list; each holds the variables    *)
(* of the others at their inert initial value.                             *)
(***************************************************************************)
EXTENDS Integers, Sequences, FiniteSets, TLC

\* ------------------------------------------------------------------------
\* Bounds
\* ------------------------------------------------------------------------
\* number of repositories in settings.repo_list
NumRepos == 2
\* largest settings.max_workers explored (config.py allows 1..16)
MaxWorkers == 2
\* longest content of the target file, in characters
MaxFileLen == 3
\* longest fix.original_code, in characters
MaxOrigLen == 2
\* longest fix.fixed_code, in characters
MaxFixedLen == 3
\* longest file_path of a model response, in characters
MaxPathLen == 5
\* number of threads that call throttle() on the shared limiter
NumThreads == 2
\* number of clock ticks followed after the first reading
MaxTicks == 4
\* number of nightly runs followed one after the other
MaxNights == 2
\* hours of one review cycle followed after its start
MaxCycleHours == 26
\* longest text handed to _extract_json, in characters
MaxExtractLen == 6
\* longest text handed to _fix_json_newlines, in characters
MaxRepairLen == 5
\* largest max_attempts given to the retry decorator
MaxAttempts == 3
\* number of distinct contents the target file can hold
NumContents == 3

\* the largest number of diagnostics in one checker output
MaxDiagnostics == 2

VARIABLES
    \* ---- orchestrator (Spec) ----
    settings,            \* Settings: max_workers, dry_run, run_tests, repo_list
    mpc,                 \* position of the thread executing run_review
    idx,                 \* loop index of run_review's submit / cancel loops
    fut,                 \* state of the Future submitted for each repository
    queue,               \* ThreadPoolExecutor work queue (FIFO of repositories)
    yielded,             \* futures already yielded by as_completed
    ppc,                 \* position of each _process_repo invocation
    ret,                 \* return value of each _process_repo invocation
    records,             \* record_pr calls made for each repository
    raised,              \* repositories whose pipeline raised an exception
    rejected,            \* RejectedFix rows: <<repo_name, file_path, fix_hash>>
    repos_reviewed,      \* run_review local counter
    prs_created,         \* run_review local counter
    run_status,          \* ReviewRun.status of this run
    idle,                \* self._idle (threading.Event)
    shutdown_requested,  \* self._shutdown_requested (threading.Event)
    deadline_passed,     \* what self.deadline.is_past_deadline() answers
    spc,                 \* position of the thread executing start()
    \* ---- patch applier (SpecApply) ----
    fix,                 \* the FixSuggestion passed to apply_fix
    file0,               \* content of the files before the call
    fs,                  \* regular files on disk: location -> content
    tmp,                 \* the mkstemp file: its directory and content
    apc,                 \* position inside apply_fix
    aret,                \* return value of apply_fix
    content,             \* local: text read from the target
    new_content,         \* local: text after the substitution
    verdict,             \* what _validate_syntax answered
    io,                  \* file operations performed so far
    \* ---- response validator (SpecParse) ----
    response,            \* the raw model response handed to the validator
    parsed,              \* what _parse_llm_response returned
    apply_call,          \* the apply_fix call the pipeline made with the result
    \* ---- rate limiter (SpecThrottle) ----
    now,                 \* the wall clock, time.time(), in ticks
    last_call,           \* self._last_call
    lock,                \* holder of self._lock, 0 when free
    tpc,                 \* position of each thread inside throttle()
    remaining_delay,     \* local of each thread: min_delay - elapsed
    wake,                \* instant at which each thread's timed wait expires
    stamps,              \* the last two values assigned to _last_call, in order
    shutdown_event,      \* self._shutdown_event
    throttle_result,     \* how the throttle() call each thread is leaving ended
    \* ---- history of the pipeline (Spec, SpecNights) ----
    rate_limited,        \* the call of each pipeline that raised RateLimitExhausted
    calls,               \* per repository, the collaborator calls of each invocation
    night,               \* number of the nightly run in progress
    tracing,             \* whether calls is kept
    \* ---- deadline enforcer (SpecDeadline) ----
    clock,               \* datetime.now(self.timezone), in minutes from day 0 00:00
    deadline_time,       \* <<self.deadline_hour, self.deadline_minute>>
    review_started_at,   \* self._review_started_at, <<>> before the cycle starts
    past,                \* what is_past_deadline() answered at this instant
    time_left,           \* <<what time_remaining() answered at this instant>>
    seen_past,           \* is_past_deadline() answered True earlier in the cycle
    \* ---- JSON extraction and repair (SpecJson) ----
    json_text,           \* the text under study
    jpc,                 \* which call comes next
    extracted,           \* <<what _extract_json(json_text) returned>>
    embedded,            \* _extract_json of json_text wrapped in prose: its result
    repaired,            \* <<_fix_json_newlines(json_text)>>
    repaired_twice,      \* <<_fix_json_newlines of the repaired text>>
    \* ---- retried operations (SpecRetry) ----
    rop,                 \* the operation under study
    rcfg,                \* its max_attempts, delay and backoff
    script,              \* what the wrapped call does, call by call
    ncalls,              \* calls of the wrapped function made so far
    attempt,             \* the loop variable: number of the next attempt
    current_delay,       \* the wrapper's current_delay
    sleeps,              \* the arguments of the time.sleep calls, in order
    last_exception,      \* the call whose exception the wrapper holds, 0 none
    rstatus,             \* "running" or how the operation ended
    \* ---- the clone's branches and working tree (SpecGit) ----
    gcfg,                \* settings.dry_run and settings.run_tests
    gfix,                \* the content apply_fix writes to the target file
    gpc,                 \* the pipeline's position
    head,                \* the branch checked out
    branches,            \* the local branches
    tip,                 \* per branch, the committed content of the file
    worktree,            \* the content of the file in the working tree
    gexit,               \* the exit the pipeline took
    \* ---- syntax verifier (SpecSyntax) ----
    suffix,              \* file_path.suffix.lower()
    run,                 \* what subprocess.run does for the checker
    vpc,                 \* "call" before _validate_syntax, "done" after
    syntax_ok,           \* <<what _validate_syntax returned>>
    syntax_log           \* the level of the message the validator logged

ovars == <<settings, mpc, idx, fut, queue, yielded, ppc, ret, records, raised,
           rejected, repos_reviewed, prs_created, run_status, idle, shutdown_requested,
           deadline_passed, spc>>

avars == <<fix, file0, fs, tmp, apc, aret, content, new_content, verdict, io>>

pvars == <<response, parsed, apply_call>>

tvars == <<now, last_call, lock, tpc, remaining_delay, wake, stamps,
           shutdown_event, throttle_result>>

\* what the pipeline leaves behind for the properties
hvars == <<rate_limited, calls>>

nvars == <<night, tracing>>

dvars == <<clock, deadline_time, review_started_at, past, time_left, seen_past>>

jvars == <<json_text, jpc, extracted, embedded, repaired, repaired_twice>>

kvars == <<rop, rcfg, script, ncalls, attempt, current_delay, sleeps,
           last_exception, rstatus>>

gvars == <<gcfg, gfix, gpc, head, branches, tip, worktree, gexit>>

cvars == <<suffix, run, vpc, syntax_ok, syntax_log>>

\* the added variables the pipeline leaves alone
yvars == <<tvars, nvars, dvars, jvars, kvars, gvars, cvars>>

\* the added variables the rate limiter leaves alone
zvars == <<hvars, nvars, dvars, jvars, kvars, gvars, cvars>>

\* the added variables the deadline enforcer leaves alone
wvars == <<tvars, hvars, nvars, jvars, kvars, gvars, cvars>>

\* the added variables the JSON functions leave alone
uvars == <<tvars, hvars, nvars, dvars, kvars, gvars, cvars>>

\* the added variables the retried operations leave alone
qvars == <<tvars, hvars, nvars, dvars, jvars, gvars, cvars>>

\* the added variables the git operations leave alone
rvars == <<tvars, hvars, nvars, dvars, jvars, kvars, cvars>>

\* the added variables the syntax verifier leaves alone
lvars == <<tvars, hvars, nvars, dvars, jvars, kvars, gvars>>

\* the variables added to the first three groups
xvars == <<hvars, yvars>>

vars == <<ovars, avars, pvars, xvars>>

Repos == 1..NumRepos

\* Python's None
None == "None"

\* ------------------------------------------------------------------------
\* ReviewHistory.record_pr: one PRRecord per call; never raises
\* ------------------------------------------------------------------------
PRRecord(success, error) == [success |-> success, error |-> error]

record_pr(recs, r, success, error) ==
    [recs EXCEPT ![r] = Append(@, PRRecord(success, error))]

\* ------------------------------------------------------------------------
\* Orchestrator initial state (LucidPulls.__init__)
\* ------------------------------------------------------------------------
\* The configurations explored: every worker count up to the bound, an
\* empty or a full repository list, and the two runtime flags each in both
\* positions (dry run without post-fix tests, post-fix tests without dry run).
Configurations ==
    {c \in [max_workers : 1..MaxWorkers, dry_run : BOOLEAN,
            run_tests : BOOLEAN, nrepos : {0, NumRepos}] :
        c.dry_run = ~c.run_tests}

\* One RejectedFix row is left from an earlier night: hash h1 in file f of
\* repository 1.
OInit ==
    /\ settings \in Configurations
    /\ mpc = "idle"
    /\ idx = 0
    /\ fut = [r \in Repos |-> "none"]
    /\ queue = <<>>
    /\ yielded = {}
    /\ ppc = [r \in Repos |-> "none"]
    /\ ret = [r \in Repos |-> "none"]
    /\ records = [r \in Repos |-> <<>>]
    /\ raised = {}
    /\ rejected = {<<1, "f", "h1">>}
    /\ repos_reviewed = 0
    /\ prs_created = 0
    /\ run_status = "none"
    /\ idle = TRUE
    /\ shutdown_requested = FALSE
    /\ deadline_passed = FALSE
    /\ spc = "scheduler"

\* ------------------------------------------------------------------------
\* LucidPulls.run_review
\* ------------------------------------------------------------------------
Submitted == {r \in Repos : fut[r] # "none"}
Done(r) == fut[r] \in {"finished", "cancelled"}
Running == {r \in Repos : fut[r] = "running"}

\* lines 93-102: mark_review_started, start_run (status 'running')
RunReviewStart ==
    /\ mpc = "idle"
    /\ mpc' = "setup"
    /\ run_status' = "running"
    /\ UNCHANGED <<settings, idx, fut, queue, yielded, ppc, ret, records, raised,
                   rejected, repos_reviewed, prs_created, idle, shutdown_requested,
                   deadline_passed, spc>>
    /\ UNCHANGED <<avars, pvars, xvars>>

\* lines 105-121: backup (never raises), the empty repo list, and
\* cleanup_stale_repos, whose directory walk may raise OSError
RunReviewSetup ==
    /\ mpc = "setup"
    /\ IF settings.nrepos = 0
         THEN /\ mpc' = "done"
              /\ run_status' = "completed"
              /\ idx' = idx
         ELSE \E cleanup_ok \in BOOLEAN :
                IF cleanup_ok
                  THEN mpc' = "submit" /\ idx' = 1 /\ run_status' = run_status
                  ELSE mpc' = "raised" /\ idx' = idx /\ run_status' = run_status
    /\ UNCHANGED <<settings, fut, queue, yielded, ppc, ret, records, raised,
                   rejected, repos_reviewed, prs_created, idle, shutdown_requested,
                   deadline_passed, spc>>
    /\ UNCHANGED <<avars, pvars, xvars>>

\* the mutation target: a loop head that looks at neither flag
RunReviewCheck_unchecked ==
    /\ mpc = "submit"
    /\ mpc' = IF idx > settings.nrepos THEN "collect" ELSE "submitting"
    /\ UNCHANGED <<settings, idx, fut, queue, yielded, ppc, ret, records, raised,
                   rejected, repos_reviewed, prs_created, run_status, idle,
                   shutdown_requested, deadline_passed, spc>>
    /\ UNCHANGED <<avars, pvars, xvars>>

\* lines 125-130: the head of one iteration of the submission loop: the
\* list is exhausted, or the shutdown flag or is_past_deadline() ends the
\* loop, or the iteration goes on to submit
RunReviewCheck ==
    /\ mpc = "submit"
    /\ mpc' = IF idx > settings.nrepos \/ shutdown_requested \/ deadline_passed
                THEN "collect"
                ELSE "submitting"
    /\ UNCHANGED <<settings, idx, fut, queue, yielded, ppc, ret, records, raised,
                   rejected, repos_reviewed, prs_created, run_status, idle,
                   shutdown_requested, deadline_passed, spc>>
    /\ UNCHANGED <<avars, pvars, xvars>>

\* lines 131-134: executor.submit for the repository that passed the checks
RunReviewSubmit ==
    /\ mpc = "submitting"
    /\ fut' = [fut EXCEPT ![idx] = "pending"]
    /\ queue' = Append(queue, idx)
    /\ idx' = idx + 1
    /\ mpc' = "submit"
    /\ UNCHANGED <<settings, yielded, ppc, ret, records, raised, rejected, repos_reviewed,
                   prs_created, run_status, idle, shutdown_requested,
                   deadline_passed, spc>>
    /\ UNCHANGED <<avars, pvars, xvars>>

\* lines 136-151: as_completed yields a done future not yet yielded; the loop
\* body checks the shutdown flag, then counts the result
RunReviewCollect ==
    /\ mpc = "collect"
    /\ IF yielded = Submitted
         THEN /\ mpc' = "exit_pool"
              /\ UNCHANGED <<idx, yielded, repos_reviewed, prs_created>>
         ELSE \E r \in Submitted \ yielded :
                /\ Done(r)
                /\ yielded' = yielded \cup {r}
                /\ IF shutdown_requested
                     THEN /\ mpc' = "cancel"
                          /\ idx' = 1
                          /\ UNCHANGED <<repos_reviewed, prs_created>>
                     ELSE /\ mpc' = mpc
                          /\ idx' = idx
                          /\ repos_reviewed' = repos_reviewed + 1
                          /\ prs_created' = IF ret[r] = "true"
                                              THEN prs_created + 1
                                              ELSE prs_created
    /\ UNCHANGED <<settings, fut, queue, ppc, ret, records, raised, rejected, run_status,
                   idle, shutdown_requested, deadline_passed, spc>>
    /\ UNCHANGED <<avars, pvars, xvars>>

\* lines 139-142: "for f in futures: if not f.done(): f.cancel()", one future
\* per step; cancel() succeeds only on a future that is still pending
RunReviewCancel ==
    /\ mpc = "cancel"
    /\ IF idx > settings.nrepos
         THEN mpc' = "exit_pool" /\ UNCHANGED <<idx, fut>>
         ELSE /\ fut' = [fut EXCEPT ![idx] =
                            IF @ = "pending" THEN "cancelled" ELSE @]
              /\ idx' = idx + 1
              /\ mpc' = mpc
    /\ UNCHANGED <<settings, queue, yielded, ppc, ret, records, raised,
                   rejected, repos_reviewed, prs_created, run_status, idle,
                   shutdown_requested, deadline_passed, spc>>
    /\ UNCHANGED <<avars, pvars, xvars>>

\* line 123: leaving the with-block is executor.shutdown(wait=True): it
\* returns when the queue is drained and no work item is running
RunReviewExitPool ==
    /\ mpc = "exit_pool"
    /\ queue = <<>>
    /\ Running = {}
    /\ mpc' = "complete"
    /\ UNCHANGED <<settings, idx, fut, queue, yielded, ppc, ret, records, raised,
                   rejected, repos_reviewed, prs_created, run_status, idle,
                   shutdown_requested, deadline_passed, spc>>
    /\ UNCHANGED <<avars, pvars, xvars>>

\* lines 153-160: complete_run and the all-failed alert
RunReviewComplete ==
    /\ mpc = "complete"
    /\ run_status' = "completed"
    /\ mpc' = "done"
    /\ UNCHANGED <<settings, idx, fut, queue, yielded, ppc, ret, records, raised,
                   rejected, repos_reviewed, prs_created, idle, shutdown_requested,
                   deadline_passed, spc>>
    /\ UNCHANGED <<avars, pvars, xvars>>

\* C32: every run started by run_review is completed exactly once on every
\* path out of run_review, also when a step of run_review raises, so no run
\* is left in status 'running'; and a run's status never moves back from
\* completed or failed to running
C32_EveryRunIsCompleted ==
    [][ /\ mpc' \in {"done", "raised"} => run_status' # "running"
        /\ run_status \in {"completed", "failed"} => run_status' # "running" ]_vars

\* the wall clock reaches the cycle's deadline; run_review consults
\* is_past_deadline() only in its submission loop
DeadlinePasses ==
    /\ mpc \in {"setup", "submit", "submitting"}
    /\ ~deadline_passed
    /\ deadline_passed' = TRUE
    /\ UNCHANGED <<settings, mpc, idx, fut, queue, yielded, ppc, ret, records,
                   raised, rejected, repos_reviewed, prs_created, run_status, idle,
                   shutdown_requested, spc>>
    /\ UNCHANGED <<avars, pvars, xvars>>

\* ------------------------------------------------------------------------
\* ThreadPoolExecutor worker threads
\* ------------------------------------------------------------------------
\* A free worker thread dequeues the oldest work item; an item whose future
\* was cancelled is dropped (set_running_or_notify_cancel), any other starts
\* running _process_repo.  The worker does not look at the shutdown flag or
\* at the deadline.
WorkerTake ==
    /\ queue # <<>>
    /\ Cardinality(Running) < settings.max_workers
    /\ LET r == Head(queue) IN
         /\ queue' = Tail(queue)
         /\ IF fut[r] = "cancelled"
              THEN UNCHANGED <<fut, ppc>>
              ELSE /\ fut' = [fut EXCEPT ![r] = "running"]
                   /\ ppc' = [ppc EXCEPT ![r] = "clear"]
    /\ UNCHANGED <<settings, mpc, idx, yielded, ret, records, raised, rejected,
                   repos_reviewed, prs_created, run_status, idle,
                   shutdown_requested, deadline_passed, spc>>
    /\ UNCHANGED <<avars, pvars, xvars>>

\* ------------------------------------------------------------------------
\* LucidPulls._process_repo and LucidPulls._analyze_and_fix
\* ------------------------------------------------------------------------
\* the mutation target: a handler that swallows the exception unrecorded
except_handler_silent(recs, r) == recs

\* main.py 206-214: the generic handler records str(e) as a failed outcome
except_handler(recs, r) == record_pr(recs, r, FALSE, "str(e)")

\* a call the pipeline made, as the event log keeps it.  The log keeps the
\* calls from the analysis on: analyze, is_fix_rejected, create_branch,
\* apply_fix, run_repo_tests, record_rejected_fix, commit_changes,
\* push_branch, create_pr, record_pr.
Event(call, arg, result) == [call |-> call, arg |-> arg, result |-> result]

\* the argument of the calls that take no fix
NoFix == <<"-", "-">>

\* the log of one more _process_repo invocation is kept when tracing is on
Log(r, ev) == IF tracing THEN [calls EXCEPT ![r] = Append(@, ev)] ELSE calls

\* whether the RejectedFix store answers the query / accepts the write; its
\* failures are followed where the calls are traced
DbOutcomes == IF tracing THEN {"ok", "error"} ELSE {"ok"}

\* history.py 346-371: a row with the three keys exists; a database error is
\* logged and answered False
is_fix_rejected(rows, repo_name, file_path, fix_hash, db) ==
    IF db = "error" THEN FALSE ELSE <<repo_name, file_path, fix_hash>> \in rows

\* history.py 373-406: one row is added and committed; a database error is
\* logged and nothing is written.  Rows are kept as a set: a second row with
\* the same three keys changes no answer of is_fix_rejected.
record_rejected_fix(rows, repo_name, file_path, fix_hash, db) ==
    IF db = "error" THEN rows ELSE rows \cup {<<repo_name, file_path, fix_hash>>}

\* TestResult as run_repo_tests (code_analyzer.py 692-729) builds it and
\* main.py 335 reads it: ran is False for 'skipped', passed is True for
\* 'passed' only
TestResult(status) ==
    [status |-> status, ran |-> status # "skipped", passed |-> status = "passed"]

\* the timeout takes the path of the failure; it is followed where the
\* calls are traced
TestResults ==
    {TestResult(s) : s \in IF tracing
                             THEN {"skipped", "passed", "failed", "timeout"}
                             ELSE {"skipped", "passed", "failed"}}

\* the suggestions the analysis can select: file_path and _compute_fix_hash
\* (main.py 536-548: sha256 of original_code, a separator and fixed_code)
Suggestions ==
    IF tracing THEN {<<"f", "h1">>, <<"g", "h1">>, <<"f", "h2">>}
               ELSE {<<"f", "h1">>, <<"f", "h2">>}

\* lines 215-217, the outer finally: _write_heartbeat(), self._idle.set();
\* the function returns rv and the worker marks the future finished
Return(r, rv) ==
    /\ ret' = [ret EXCEPT ![r] = rv]
    /\ idle' = TRUE
    /\ ppc' = [ppc EXCEPT ![r] = "returned"]
    /\ fut' = [fut EXCEPT ![r] = "finished"]

\* a path of the pipeline that records one outcome and returns rv
Finish(r, success, error, rv, rej, ev) ==
    /\ records' = record_pr(records, r, success, error)
    /\ rejected' = rej
    /\ raised' = raised
    /\ rate_limited' = rate_limited
    /\ calls' = Log(r, Append(ev, Event("record_pr", NoFix, error)))
    /\ Return(r, rv)

\* an exception leaves the pipeline: close_repo runs (inner finally), the
\* handler records it, _process_repo returns False
Raise(r, ev) ==
    /\ records' = except_handler(records, r)
    /\ rejected' = rejected
    /\ raised' = raised \cup {r}
    /\ rate_limited' = rate_limited
    /\ calls' = Log(r, Append(ev, Event("record_pr", NoFix, "str(e)")))
    /\ Return(r, "false")

\* the mutation target: a handler that leaves the exhaustion unrecorded
rate_limit_handler_unrecorded(recs, r, error) == recs

\* main.py 181-190, 236-245, 406-416: the handlers of RateLimitExhausted
\* record one failed outcome with their own message
rate_limit_handler(recs, r, error) == record_pr(recs, r, FALSE, error)

\* RateLimitExhausted reaches one of its three handlers, which records and
\* returns False: no wait_for_reset, no second call
RateLimited(r, site, error, ev) ==
    /\ records' = rate_limit_handler(records, r, error)
    /\ rejected' = rejected
    /\ raised' = raised
    /\ rate_limited' = [rate_limited EXCEPT ![r] = site]
    /\ calls' = Log(r, Append(ev, Event("record_pr", NoFix, error)))
    /\ Return(r, "false")

\* line 177: self._idle.clear()
ProcessRepoClear(r) ==
    /\ ppc[r] = "clear"
    /\ idle' = FALSE
    /\ ppc' = [ppc EXCEPT ![r] = "pipeline"]
    /\ UNCHANGED <<settings, mpc, idx, fut, queue, yielded, ret, records, raised,
                   rejected, repos_reviewed, prs_created, run_status,
                   shutdown_requested, deadline_passed, spc>>
    /\ UNCHANGED <<avars, pvars, xvars>>

\* the mutation target: a cleanup that never deletes the pushed branch
Cleanup_local_only(remote) == Event("cleanup_branch", NoFix, "local")

\* main.py 314, 339, 361, 375, 390, 407, 423: cleanup_branch, of the local
\* branch or (remote=True) of the pushed one too; it catches its own errors
Cleanup(remote) == Event("cleanup_branch", NoFix, remote)

\* lines 313-352: a selected fix is discarded: cleanup_branch,
\* record_rejected_fix, record_pr, return False
Discard(r, s, error, ev) ==
    \E db \in DbOutcomes :
      Finish(r, FALSE, error, "false",
             record_rejected_fix(rejected, r, s[1], s[2], db),
             ev \o <<Cleanup("local"), Event("record_rejected_fix", s, db)>>)

\* the mutation target: a pipeline that does not look at the flag
dry_run_ignored(cfg) == FALSE

\* main.py 373: if self.settings.dry_run
dry_run(cfg) == cfg.dry_run

\* lines 354-453 of _analyze_and_fix: commit, push and the PR
Publish(r, s, ev) ==
    \E committed \in BOOLEAN :
      IF ~committed
        THEN Finish(r, FALSE, "Failed to commit changes", "false", rejected,
                    ev \o <<Event("commit_changes", s, "False"),
                            Cleanup("local")>>)
      ELSE IF dry_run(settings)
        THEN Finish(r, TRUE, "dry_run", "true", rejected,
                    ev \o <<Event("commit_changes", s, "True"),
                            Cleanup("local")>>)
      ELSE \E pushed \in BOOLEAN :
        IF ~pushed
          THEN Finish(r, FALSE, "Failed to push branch", "false", rejected,
                      ev \o <<Event("commit_changes", s, "True"),
                              Event("push_branch", NoFix, "False"),
                              Cleanup("local")>>)
        ELSE LET ev2 == ev \o <<Event("commit_changes", s, "True"),
                                Event("push_branch", NoFix, "True")>> IN
          \E pr_result \in {"RateLimitExhausted", "failed", "raise", "created"} :
            IF pr_result = "RateLimitExhausted"
              THEN RateLimited(r, "create_pr",
                               "Rate limit exhausted during PR creation",
                               ev2 \o <<Event("create_pr", s, pr_result),
                                        Cleanup("remote")>>)
            ELSE IF pr_result = "failed"
              THEN Finish(r, FALSE, "Failed to create PR", "false", rejected,
                          ev2 \o <<Event("create_pr", s, pr_result),
                                   Cleanup("remote")>>)
            ELSE IF pr_result = "raise"
              THEN Raise(r, Append(ev2, Event("create_pr", s, pr_result)))
            ELSE Finish(r, TRUE, "None", "true", rejected,
                        Append(ev2, Event("create_pr", s, pr_result)))

\* lines 298-352 of _analyze_and_fix: create_branch, apply_fix and the
\* post-fix tests
ApplyAndPublish(r, s, ev) ==
    \E branch \in {"True", "False", "raise"} :
      LET ev1 == Append(ev, Event("create_branch", NoFix, branch)) IN
      IF branch = "raise" THEN Raise(r, ev1)
      ELSE IF branch = "False"
        THEN Finish(r, FALSE, "Failed to create branch", "false", rejected, ev1)
      ELSE \E applied \in BOOLEAN :
        IF ~applied
          THEN Discard(r, s, "Failed to apply fix",
                       Append(ev1, Event("apply_fix", s, "False")))
        ELSE LET ev2 == Append(ev1, Event("apply_fix", s, "True")) IN
          IF ~settings.run_tests THEN Publish(r, s, ev2)
          ELSE \E test_result \in TestResults :
            LET ev3 == Append(ev2, Event("run_repo_tests", NoFix,
                                         test_result.status)) IN
            IF test_result.ran /\ ~test_result.passed
              THEN Discard(r, s, IF test_result.status = "failed"
                                   THEN "Tests failed after applying fix"
                                   ELSE "Tests timeout after applying fix", ev3)
              ELSE Publish(r, s, ev3)

\* lines 219-296 of _analyze_and_fix: the open-PR check, the issues, the
\* analysis and the rejected-fix lookup
AnalyzeAndFix(r, ev) ==
    \E open_pr \in {"True", "RateLimitExhausted", "raise", "False"} :
      IF open_pr = "True"
        THEN Finish(r, FALSE, "Existing LucidPulls PR already open", "false",
                    rejected, ev)
      ELSE IF open_pr = "RateLimitExhausted"
        THEN RateLimited(r, "has_open_lucidpulls_pr", "Rate limit exhausted", ev)
      ELSE IF open_pr = "raise" THEN Raise(r, ev)
      ELSE \E issues \in {"listed", "RateLimitExhausted", "raise"} :
        IF issues = "raise" THEN Raise(r, ev)
        ELSE \E s \in {NoFix} \cup Suggestions :
          LET ev3 == Append(ev, Event("analyze", s,
                                       IF s = NoFix THEN "no_fix" ELSE "fix")) IN
          IF s = NoFix
            THEN Finish(r, FALSE, "No actionable fixes identified", "false",
                        rejected, ev3)
          ELSE \E db \in DbOutcomes :
            LET hit == is_fix_rejected(rejected, r, s[1], s[2], db)
                ev4 == Append(ev3, Event("is_fix_rejected", s,
                                         IF hit THEN "True" ELSE "False")) IN
            IF hit
              THEN Finish(r, FALSE, "Fix previously rejected", "false",
                          rejected, ev4)
              ELSE ApplyAndPublish(r, s, ev4)

\* lines 179-217: the body of _process_repo after _idle.clear().  Everything
\* in it acts on the repository's own clone or goes through thread-safe
\* collaborators, so it is one step: clone_or_pull raises RateLimitExhausted
\* (throttle), returns None (every other failure is caught inside it) or a
\* RepoInfo; then _analyze_and_fix, close_repo and the outer finally.
ProcessRepo(r) ==
    /\ ppc[r] = "pipeline"
    /\ \E repo_info \in {"RateLimitExhausted", "None", "RepoInfo"} :
         IF repo_info = "RateLimitExhausted"
           THEN RateLimited(r, "clone_or_pull", "Rate limit exhausted (wait)",
                            <<>>)
         ELSE IF repo_info = "None"
           THEN Finish(r, FALSE, "Failed to clone/pull repository", "false",
                       rejected, <<>>)
         ELSE AnalyzeAndFix(r, <<>>)
    /\ UNCHANGED <<settings, mpc, idx, queue, yielded, repos_reviewed,
                   prs_created, run_status, shutdown_requested,
                   deadline_passed, spc>>
    /\ UNCHANGED <<avars, pvars, yvars>>

\* ------------------------------------------------------------------------
\* LucidPulls._signal_handler and the shutdown sequence of LucidPulls.start
\* ------------------------------------------------------------------------
\* lines 736-745: set the shutdown flags and stop the scheduler, which makes
\* scheduler.start() in start() return
SignalHandler ==
    /\ spc = "scheduler"
    /\ shutdown_requested' = TRUE
    /\ spc' = "check_idle"
    /\ UNCHANGED <<settings, mpc, idx, fut, queue, yielded, ppc, ret, records,
                   raised, rejected, repos_reviewed, prs_created, run_status,
                   idle, deadline_passed>>
    /\ UNCHANGED <<avars, pvars, xvars>>

\* lines 731-734: if not self._idle.is_set(): self._idle.wait(timeout=60);
\* then self.close()
StartCheckIdle ==
    /\ spc = "check_idle"
    /\ spc' = IF idle THEN "closed" ELSE "wait_idle"
    /\ UNCHANGED <<settings, mpc, idx, fut, queue, yielded, ppc, ret, records,
                   raised, rejected, repos_reviewed, prs_created, run_status,
                   idle, shutdown_requested, deadline_passed>>
    /\ UNCHANGED <<avars, pvars, xvars>>

\* the wait returns because the event was set
StartWaitIdle ==
    /\ spc = "wait_idle"
    /\ idle
    /\ spc' = "closed"
    /\ UNCHANGED <<settings, mpc, idx, fut, queue, yielded, ppc, ret, records,
                   raised, rejected, repos_reviewed, prs_created, run_status,
                   idle, shutdown_requested, deadline_passed>>
    /\ UNCHANGED <<avars, pvars, xvars>>

\* the wait returns because its 60 s timeout expired
StartWaitTimeout ==
    /\ spc = "wait_idle"
    /\ spc' = "closed_after_timeout"
    /\ UNCHANGED <<settings, mpc, idx, fut, queue, yielded, ppc, ret, records,
                   raised, rejected, repos_reviewed, prs_created, run_status,
                   idle, shutdown_requested, deadline_passed>>
    /\ UNCHANGED <<avars, pvars, xvars>>

\* ------------------------------------------------------------------------
\* Properties of the orchestrator (checked under Spec)
\* ------------------------------------------------------------------------
\* the repositories of settings.repo_list
RepoList == 1..settings.nrepos

\* a pipeline is mid-flight: it has cleared _idle and not yet returned
MidPipeline(r) == ppc[r] = "pipeline"

\* the pipeline of r has started executing in a worker
Started(r) == ppc[r] # "none"

NumRecords(r) == Len(records[r])

\* C1 as claimed: when run_review has returned, every repository of the
\* configured list has exactly one record_pr call.
C1_OneRecordPerConfiguredRepo ==
    mpc = "done" => \A r \in RepoList : NumRecords(r) = 1

\* C1 as amended: no repository ever has more than one record_pr call; a
\* pipeline that has returned has made exactly one, whatever path it took;
\* and when run_review has returned, a repository has one record if its
\* pipeline started and none if it was never submitted or was cancelled.
C1_OneRecordPerStartedRepo ==
    /\ \A r \in Repos : NumRecords(r) <= 1
    /\ \A r \in Repos : ppc[r] = "returned" => NumRecords(r) = 1
    /\ \A r \in Repos : ppc[r] # "returned" => NumRecords(r) = 0
    /\ mpc = "done" =>
         \A r \in RepoList :
            /\ fut[r] \in {"none", "cancelled", "finished"}
            /\ NumRecords(r) = IF Started(r) THEN 1 ELSE 0
            /\ Started(r) <=> fut[r] = "finished"

\* C1 witness: a finished run in which one pipeline raised and recorded its
\* one throttle_result while another repository was never submitted
C1_Witness ==
    /\ mpc = "done"
    /\ \E r \in RepoList : r \in raised /\ NumRecords(r) = 1
    /\ \E r \in RepoList : fut[r] = "none" /\ NumRecords(r) = 0

\* C2: an exception raised inside one repository's pipeline is caught and
\* recorded as a failed throttle_result of that repository only; it does not leave
\* run_review (run_review raises only from its own set-up, before anything
\* is submitted); and without a shutdown request every submitted repository
\* is processed and recorded by the time run_review returns.
C2_PipelineExceptionContained ==
    /\ \A r \in raised :
          /\ records[r] = <<PRRecord(FALSE, "str(e)")>>
          /\ ret[r] = "false"
          /\ fut[r] = "finished"
    /\ \A r \in Repos \ raised :
          \A k \in 1..Len(records[r]) : records[r][k].error # "str(e)"
    /\ mpc = "raised" => Submitted = {}
    /\ (mpc = "done" /\ ~shutdown_requested) =>
          \A r \in Submitted : fut[r] = "finished" /\ NumRecords(r) = 1

\* C2 witness: one pipeline raised, another submitted repository was still
\* processed and produced a pull request, and run_review returned
C2_Witness ==
    /\ mpc = "done"
    /\ ~shutdown_requested
    /\ \E r \in raised : \E q \in Submitted \ raised :
          /\ records[r] = <<PRRecord(FALSE, "str(e)")>>
          /\ records[q] = <<PRRecord(TRUE, "None")>>

\* C9 as claimed: whenever the single indicator _idle reports idle, no
\* repository pipeline is executing (none is between its _idle.clear() and
\* its return), for every interleaving of the workers.
C9_IdleMeansNoPipeline ==
    idle => \A r \in Repos : ~MidPipeline(r)

\* C10 as claimed: once shutdown is requested no pipeline that had not
\* started begins executing, and every pipeline that was running has
\* completed and recorded its throttle_result when run_review returns.
C10_NoStartAfterShutdown ==
    /\ [][ shutdown_requested =>
             \A r \in Repos : fut'[r] = "running" => fut[r] = "running" ]_vars
    /\ [](mpc = "done" =>
             \A r \in Repos : Started(r) => ppc[r] = "returned" /\ NumRecords(r) = 1)

C29_NoStartAfterDeadline ==
    [][ deadline_passed =>
          \A r \in Repos : fut'[r] = "running" => fut[r] = "running" ]_vars

\* C29 amended: once the deadline has passed and the submission loop is not
\* already past the check of an iteration, no repository is submitted any
\* more, so a repository that was not yet submitted never begins executing;
\* a pipeline begins executing only from the pool's queue, where work
\* submitted before the deadline stays and starts when a worker is free.
C29_DeadlineBoundsSubmission ==
    /\ [][ (deadline_passed /\ mpc # "submitting") =>
              /\ mpc' # "submitting"
              /\ \A r \in Repos : fut[r] = "none" =>
                    fut'[r] = "none" /\ ppc'[r] = "none" ]_vars
    /\ [][ \A r \in Repos : (fut[r] # "running" /\ fut'[r] = "running") =>
              (fut[r] = "pending" /\ queue # <<>> /\ Head(queue) = r) ]_vars

\* the deadline stopped the loop after the first submission: the first
\* pipeline runs, the second repository was never submitted
C29_Witness ==
    /\ deadline_passed /\ ~shutdown_requested
    /\ mpc = "collect"
    /\ fut[1] = "running"
    /\ fut[2] = "none" /\ ppc[2] = "none"

\* the message each handler of RateLimitExhausted records (main.py 187, 241, 412)
RateLimitError(site) ==
    CASE site = "clone_or_pull" -> "Rate limit exhausted (wait)"
      [] site = "has_open_lucidpulls_pr" -> "Rate limit exhausted"
      [] site = "create_pr" -> "Rate limit exhausted during PR creation"

\* C14: a pipeline that receives RateLimitExhausted from the clone, the
\* open-PR check or the PR creation ends in that same step, once: it has
\* recorded exactly one failed outcome carrying the handler's message and
\* returned False, without raising; it is never entered again (no retry, no
\* wait for the reset); the step touches no other repository's future or
\* pipeline nor the submitting thread, and a run that ends without shutdown
\* or deadline has finished every repository of the list with one record.
C14_RateLimitSkipsAndContinues ==
    /\ [](\A r \in Repos : rate_limited[r] # "none" =>
             /\ records[r] = <<PRRecord(FALSE, RateLimitError(rate_limited[r]))>>
             /\ ret[r] = "false"
             /\ ppc[r] = "returned" /\ fut[r] = "finished"
             /\ r \notin raised)
    /\ [][ \A r \in Repos : rate_limited'[r] # rate_limited[r] =>
             /\ rate_limited[r] = "none"
             /\ ppc[r] = "pipeline" /\ ppc'[r] = "returned"
             /\ mpc' = mpc /\ queue' = queue
             /\ \A q \in Repos \ {r} : fut'[q] = fut[q] /\ ppc'[q] = ppc[q] ]_vars
    /\ [][ \A r \in Repos : ppc[r] = "returned" =>
             ppc'[r] = "returned" /\ records'[r] = records[r] ]_vars
    /\ [](mpc = "done" /\ ~shutdown_requested /\ ~deadline_passed =>
             \A r \in RepoList : fut[r] = "finished" /\ NumRecords(r) = 1)

\* C14 witness: with one worker, repository 1 ran into the exhausted quota at
\* the clone and repository 2, processed after it, got its pull request
C14_Witness ==
    /\ mpc = "done" /\ settings.max_workers = 1
    /\ rate_limited[1] = "clone_or_pull"
    /\ records[1] = <<PRRecord(FALSE, "Rate limit exhausted (wait)")>>
    /\ rate_limited[2] = "none"
    /\ records[2] = <<PRRecord(TRUE, "None")>>
    /\ repos_reviewed = 2 /\ prs_created = 1

\* ========================================================================
\* Nightly runs over one RejectedFix store (SpecNights)
\* ========================================================================
\* One repository, one worker, an empty store before the first night, every
\* collaborator call of every invocation kept in calls.
NightsInit ==
    /\ settings \in {c \in [max_workers : {1}, dry_run : BOOLEAN,
                             run_tests : BOOLEAN, nrepos : {1}] :
                        c.dry_run = ~c.run_tests}
    /\ mpc = "idle"
    /\ idx = 0
    /\ fut = [r \in Repos |-> "none"]
    /\ queue = <<>>
    /\ yielded = {}
    /\ ppc = [r \in Repos |-> "none"]
    /\ ret = [r \in Repos |-> "none"]
    /\ records = [r \in Repos |-> <<>>]
    /\ raised = {}
    /\ rejected = {}
    /\ repos_reviewed = 0
    /\ prs_created = 0
    /\ run_status = "none"
    /\ idle = TRUE
    /\ shutdown_requested = FALSE
    /\ deadline_passed = FALSE
    /\ spc = "scheduler"
    /\ rate_limited = [r \in Repos |-> "none"]
    /\ calls = [r \in Repos |-> <<>>]
    /\ night = 1
    /\ tracing = TRUE

\* scheduler.py 28-49: the cron trigger calls run_review again the next
\* night.  The run starts from fresh locals, futures and run id (records
\* holds the record_pr calls of the run in progress); the RejectedFix rows
\* and the call history stay.
NextRun ==
    /\ mpc \in {"done", "raised"}
    /\ night < MaxNights
    /\ night' = night + 1
    /\ mpc' = "idle"
    /\ idx' = 0
    /\ fut' = [r \in Repos |-> "none"]
    /\ queue' = <<>>
    /\ yielded' = {}
    /\ ppc' = [r \in Repos |-> "none"]
    /\ ret' = [r \in Repos |-> "none"]
    /\ records' = [r \in Repos |-> <<>>]
    /\ raised' = {}
    /\ repos_reviewed' = 0
    /\ prs_created' = 0
    /\ run_status' = "none"
    /\ rate_limited' = [r \in Repos |-> "none"]
    /\ UNCHANGED <<settings, rejected, idle, shutdown_requested, deadline_passed,
                   spc, calls, tracing>>
    /\ UNCHANGED <<avars, pvars, tvars, dvars, jvars, kvars, gvars, cvars>>

NextNights ==
    \/ RunReviewStart
    \/ RunReviewSetup
    \/ RunReviewCheck
    \/ RunReviewSubmit
    \/ RunReviewCollect
    \/ RunReviewExitPool
    \/ RunReviewComplete
    \/ WorkerTake
    \/ \E r \in Repos : ProcessRepoClear(r)
    \/ \E r \in Repos : ProcessRepo(r)
    \/ NextRun

\* ------------------------------------------------------------------------
\* Properties of the RejectedFix store (checked under SpecNights)
\* ------------------------------------------------------------------------
\* the calls of the invocation a step has just completed for repository r
Invoked(r) == Len(calls'[r]) = Len(calls[r]) + 1
ThisNight(r) == calls'[r][Len(calls'[r])]

Called(ev, name) == \E i \in DOMAIN ev : ev[i].call = name

\* the suggestion an invocation selected, NoFix when it selected none
Selected(ev) ==
    IF \E i \in DOMAIN ev : ev[i].call = "analyze" /\ ev[i].result = "fix"
      THEN (CHOOSE e \in {ev[i] : i \in DOMAIN ev} : e.call = "analyze").arg
      ELSE NoFix

Row(r, s) == <<r, s[1], s[2]>>

\* the invocation discarded the fix it had selected: apply_fix answered
\* False, or the post-fix tests ran and did not pass
Discarded(ev) ==
    \E i \in DOMAIN ev :
      \/ ev[i].call = "apply_fix" /\ ev[i].result = "False"
      \/ ev[i].call = "run_repo_tests" /\ ev[i].result \in {"failed", "timeout"}

\* C15: every apply_fix call comes after an is_fix_rejected call for the
\* same suggestion in the same invocation; and an invocation that selects a
\* suggestion whose (repo_name, file_path, fix_hash) row is in the store
\* creates no branch, does not call apply_fix and records 'Fix previously
\* rejected'.
C15_RejectedFixNeverReapplied ==
    [][ \A r \in Repos : Invoked(r) =>
          LET ev == ThisNight(r)
              s == Selected(ev) IN
            /\ \A i \in DOMAIN ev : ev[i].call = "apply_fix" =>
                  \E j \in 1..(i - 1) :
                    ev[j].call = "is_fix_rejected" /\ ev[j].arg = ev[i].arg
            /\ (s # NoFix /\ Row(r, s) \in rejected) =>
                  /\ ~Called(ev, "create_branch")
                  /\ ~Called(ev, "apply_fix")
                  /\ records'[r] = <<PRRecord(FALSE, "Fix previously rejected")>>
      ]_vars

\* C16: an invocation adds the row of its suggestion to the store when it
\* discarded the fix and leaves the store as it was otherwise (a fix that
\* succeeded included); a suggestion is skipped as previously rejected only
\* if an earlier invocation selected the same file and hash and discarded
\* it; no step removes a row.
C16_RowWrittenExactlyOnDiscard ==
    /\ [][ \A r \in Repos : Invoked(r) =>
              LET ev == ThisNight(r) IN
                IF Discarded(ev)
                  THEN rejected' = rejected \cup {Row(r, Selected(ev))}
                  ELSE rejected' = rejected ]_vars
    /\ [][ \A r \in Repos :
              (Invoked(r) /\ records'[r] =
                              <<PRRecord(FALSE, "Fix previously rejected")>>) =>
                \E n \in DOMAIN calls[r] :
                  /\ Selected(calls[r][n]) = Selected(ThisNight(r))
                  /\ Discarded(calls[r][n]) ]_vars
    /\ [][rejected \subseteq rejected']_vars

\* the invocation committed the fix it had applied
Committed(ev) ==
    \E i \in DOMAIN ev : ev[i].call = "commit_changes" /\ ev[i].result = "True"

\* C25: with dry_run enabled, a pipeline whose fix was applied and committed
\* makes no push_branch and no create_pr call: it cleans up the local
\* branch, records success=True with error 'dry_run' and returns True; with
\* dry_run disabled the same pipeline calls push_branch
C25_DryRunNeverPublishes ==
    [][ \A r \in Repos : (Invoked(r) /\ Committed(ThisNight(r))) =>
          LET ev == ThisNight(r) IN
            IF settings.dry_run
              THEN /\ ~Called(ev, "push_branch")
                   /\ ~Called(ev, "create_pr")
                   /\ \E i \in DOMAIN ev : ev[i] = Cleanup("local")
                   /\ records'[r] = Append(records[r], PRRecord(TRUE, "dry_run"))
                   /\ ret'[r] = "true"
              ELSE Called(ev, "push_branch") ]_vars

C25_Witness ==
    /\ settings.dry_run
    /\ Len(calls[1]) = 1
    /\ Committed(calls[1][1])
    /\ ~Called(calls[1][1], "push_branch")
    /\ records[1] = <<PRRecord(TRUE, "dry_run")>>
    /\ ret[1] = "true"

\* the record_pr calls of one invocation
RecordCalls(ev) == {i \in DOMAIN ev : ev[i].call = "record_pr"}

\* C30: every invocation of _process_repo that returns has made exactly one
\* record_pr call for its repository, on every path: each early return,
\* each failure branch, success, dry run and the generic exception handler;
\* the call is the last thing the invocation does before it returns, it adds
\* one outcome to the repository's records, and records change in no other
\* step of a run
C30_ExactlyOneRecordPerInvocation ==
    /\ [][ \A r \in Repos : (ppc[r] # "returned" /\ ppc'[r] = "returned") =>
              /\ Invoked(r)
              /\ Cardinality(RecordCalls(ThisNight(r))) = 1
              /\ Len(ThisNight(r)) \in RecordCalls(ThisNight(r))
              /\ Len(records'[r]) = Len(records[r]) + 1 ]_vars
    /\ [][ \A r \in Repos :
              (records'[r] # records[r] /\ night' = night) =>
                (ppc[r] = "pipeline" /\ ppc'[r] = "returned") ]_vars
    /\ [](\A r \in Repos : ppc[r] = "returned" => NumRecords(r) = 1)

\* an invocation that left through the generic exception handler, in the
\* second night
C30_Witness ==
    /\ night = 2
    /\ ppc[1] = "returned" /\ 1 \in raised
    /\ Len(calls[1]) = 2
    /\ Cardinality(RecordCalls(calls[1][2])) = 1
    /\ records[1] = <<PRRecord(FALSE, "str(e)")>>

\* the steps from the rejected-fix lookup to the pull request, in the order
\* of _analyze_and_fix
StepRank(call) ==
    CASE call = "is_fix_rejected" -> 1
      [] call = "create_branch" -> 2
      [] call = "apply_fix" -> 3
      [] call = "run_repo_tests" -> 4
      [] call = "commit_changes" -> 5
      [] call = "push_branch" -> 6
      [] call = "create_pr" -> 7
      [] OTHER -> 0

IsStep(e) == StepRank(e.call) > 0

\* the step let the pipeline go on
StepOk(e) ==
    CASE e.call = "is_fix_rejected" -> e.result = "False"
      [] e.call = "run_repo_tests" -> e.result \in {"passed", "skipped"}
      [] e.call = "create_pr" -> e.result = "created"
      [] OTHER -> e.result = "True"

\* the step that follows a step of rank n: the tests are left out when
\* they are not enabled
NextRank(n) == IF n = 3 /\ ~settings.run_tests THEN 5 ELSE n + 1

\* C31: a pull request is created only after, in this order and for the
\* same fix, the rejected-fix lookup answered no match, create_branch
\* succeeded, apply_fix returned True, the post-fix tests (when enabled) did
\* not fail, the commit succeeded and, dry run being off, the push
\* succeeded; each step runs at most once, right after the step before it
\* succeeded, so a step that fails is the last step of the pipeline
C31_PullRequestOnlyAfterEveryStep ==
    [][ \A r \in Repos : Invoked(r) =>
          LET st == SelectSeq(ThisNight(r), IsStep) IN
            /\ \A i \in 1..Len(st) :
                 /\ i = 1 => st[i].call = "is_fix_rejected"
                 /\ i > 1 => /\ StepOk(st[i - 1])
                             /\ StepRank(st[i].call) = NextRank(StepRank(st[i - 1].call))
                 /\ st[i].call = "push_branch" => ~settings.dry_run
                 /\ st[i].arg # NoFix => st[i].arg = st[1].arg
            /\ \A i \in 1..Len(st) : st[i].call = "create_pr" =>
                 /\ i = IF settings.run_tests THEN 7 ELSE 6
                 /\ ~settings.dry_run ]_vars

\* a pull request created after the tests passed
C31_Witness ==
    /\ settings.run_tests /\ ~settings.dry_run
    /\ Len(calls[1]) = 1
    /\ LET st == SelectSeq(calls[1][1], IsStep) IN
         /\ Len(st) = 7
         /\ st[4] = Event("run_repo_tests", NoFix, "passed")
         /\ st[7].call = "create_pr" /\ st[7].result = "created"
         /\ st[7].arg = st[1].arg
    /\ records[1] = <<PRRecord(TRUE, "None")>>

\* the cleanup_branch calls of one invocation
CleanupCalls(ev) == {i \in DOMAIN ev : ev[i].call = "cleanup_branch"}

BranchCreated(ev) ==
    \E i \in DOMAIN ev : ev[i].call = "create_branch" /\ ev[i].result = "True"

Pushed(ev) ==
    \E i \in DOMAIN ev : ev[i].call = "push_branch" /\ ev[i].result = "True"

\* C37: after create_branch has succeeded, every exit of the pipeline through
\* a failed step (apply, tests, commit, push, PR creation, rate-limit
\* exhaustion during PR creation) and the dry-run exit call cleanup_branch
\* exactly once, before the outcome is recorded, with remote=True exactly
\* when the push had succeeded; the exit after a created PR calls no
\* cleanup_branch
C37_CleanupOnceOnEveryFailingExit ==
    [][ \A r \in Repos :
          (Invoked(r) /\ BranchCreated(ThisNight(r)) /\ r \notin raised') =>
            LET ev == ThisNight(r) IN
              IF records'[r][Len(records'[r])] = PRRecord(TRUE, "None")
                THEN CleanupCalls(ev) = {}
                ELSE /\ Cardinality(CleanupCalls(ev)) = 1
                     /\ \A i \in CleanupCalls(ev) :
                          /\ \A j \in RecordCalls(ev) : i < j
                          /\ ev[i].result = IF Pushed(ev) THEN "remote" ELSE "local" ]_vars

\* the PR could not be created after the push: one cleanup, of the pushed
\* branch too
C37_Witness ==
    /\ Len(calls[1]) = 1
    /\ Pushed(calls[1][1])
    /\ records[1] = <<PRRecord(FALSE, "Failed to create PR")>>
    /\ \E i \in CleanupCalls(calls[1][1]) : calls[1][1][i].result = "remote"
    /\ Cardinality(CleanupCalls(calls[1][1])) = 1

\* ========================================================================
\* Patch Applier: CodeAnalyzer.apply_fix
\* ========================================================================
\* Texts are sequences of one-character strings.
NL == "\n"
CodeChars == {"a", NL}

RECURSIVE Texts(_, _)
Texts(chars, n) ==
    IF n = 0 THEN {<<>>}
    ELSE LET shorter == Texts(chars, n - 1) IN
         shorter \cup {Append(t, c) : t \in {u \in shorter : Len(u) = n - 1},
                                      c \in chars}

\* str.startswith at offset i (1-based)
MatchAt(s, sub, i) ==
    /\ i + Len(sub) - 1 <= Len(s)
    /\ SubSeq(s, i, i + Len(sub) - 1) = sub

\* str.count(sub): the number of NON-OVERLAPPING occurrences, scanning from
\* the left and resuming after each match; "".count gives len + 1; the
\* occurrences of a single character cannot overlap and are counted at once
RECURSIVE str_count(_, _)
str_count(s, sub) ==
    IF sub = <<>> THEN Len(s) + 1
    ELSE IF Len(sub) = 1
      THEN Cardinality({i \in 1..Len(s) : s[i] = sub[1]})
    ELSE IF Len(s) < Len(sub) THEN 0
    ELSE IF MatchAt(s, sub, 1)
      THEN 1 + str_count(SubSeq(s, Len(sub) + 1, Len(s)), sub)
    ELSE str_count(Tail(s), sub)

\* str.replace(old, new, 1): substitute the leftmost occurrence only
str_replace_first(s, old, new) ==
    IF \E i \in 1..(Len(s) + 1) : MatchAt(s, old, i)
      THEN LET i == CHOOSE k \in 1..(Len(s) + 1) :
                      /\ MatchAt(s, old, k)
                      /\ \A j \in 1..(k - 1) : ~MatchAt(s, old, j)
           IN SubSeq(s, 1, i - 1) \o new \o SubSeq(s, i + Len(old), Len(s))
      ELSE s

\* ---- paths -------------------------------------------------------------
\* str.split(sep) keeping every piece, as a sequence of texts
RECURSIVE str_split(_, _)
str_split(s, sep) ==
    IF \E i \in 1..Len(s) : s[i] = sep
      THEN LET i == CHOOSE k \in 1..Len(s) :
                      s[k] = sep /\ \A j \in 1..(k - 1) : s[j] # sep
           IN <<SubSeq(s, 1, i - 1)>> \o str_split(SubSeq(s, i + 1, Len(s)), sep)
      ELSE <<s>>

SelectParts(pieces) == SelectSeq(pieces, LAMBDA x : x # <<>> /\ x # <<".">>)

\* PurePosixPath(p).parts without the root: the pieces between '/', empty
\* pieces and '.' dropped, '..' kept
PosixNames(p) == SelectParts(str_split(p, "/"))

PosixIsAbsolute(p) == Len(p) > 0 /\ p[1] = "/"

\* The working tree of the model.  repo_path is /r; it holds the regular
\* file f, the directory d and the symbolic link l -> / ; the regular file
\* /e lies outside the repository.
repo_path == << <<"r">> >>
InsideFile == << <<"r">>, <<"f">> >>
OutsideFile == << <<"e">> >>
Files == {InsideFile, OutsideFile}
Directories == {<<>>, repo_path, << <<"r">>, <<"d">> >>}
SymlinkAt == << <<"r">>, <<"l">> >>
SymlinkTarget == <<>>

Front(q) == SubSeq(q, 1, Len(q) - 1)

\* Path.resolve(): walk the names from the root, '..' steps to the parent
\* (the root is its own parent), a symbolic link is replaced by its target
RECURSIVE Walk(_, _)
Walk(at, names) ==
    IF names = <<>> THEN at
    ELSE IF Head(names) = <<".", ".">>
      THEN Walk(IF at = <<>> THEN <<>> ELSE Front(at), Tail(names))
    ELSE IF Append(at, Head(names)) = SymlinkAt
      THEN Walk(SymlinkTarget, Tail(names))
    ELSE Walk(Append(at, Head(names)), Tail(names))

\* (repo_path / file_path).resolve(): joining an absolute path discards
\* repo_path
resolve(p) ==
    IF PosixIsAbsolute(p) THEN Walk(<<>>, PosixNames(p))
                          ELSE Walk(repo_path, PosixNames(p))

\* the mutation target: a containment check that accepts everything
is_relative_to_always(loc, root) == TRUE

\* Path.is_relative_to(root): root is a prefix of loc
is_relative_to(loc, root) ==
    /\ Len(loc) >= Len(root)
    /\ SubSeq(loc, 1, Len(root)) = root

Exists(loc) == loc \in Files \/ loc \in Directories

\* the file_path values explored: plain, missing, directory, the root
\* itself, '..' traversal, absolute, through the symlink, normalising back
\* inside, back-slash (one POSIX name), mixed separators, absolute inside
\* the root
FilePaths ==
    { <<"f">>,
      <<"x">>,
      <<"d">>,
      <<".">>,
      <<".", ".", "/", "e">>,
      <<"/", "e">>,
      <<"l", "/", "e">>,
      <<"d", "/", ".", ".", "/", "f">>,
      <<".", ".", "\\", "e">>,
      <<"d", "/", ".", ".", "\\", "e">>,
      <<"/", "r", "/", "f">> }

\* ---- apply_fix ---------------------------------------------------------
max_fix_lines == 200
max_growth_factor == 3

LineCount(code) == str_count(code, <<NL>>) + 1

\* lines 395-404: the match is accepted only when the count is exactly one
match_rejected(match_count) == match_count = 0 \/ match_count > 1

\* the mutation target: size guards that reject at the limits
fix_too_large_at_limit(original_code, fixed_code) ==
    LET orig_lines == LineCount(original_code)
        fixed_lines == LineCount(fixed_code)
    IN \/ fixed_lines >= max_fix_lines
       \/ (orig_lines > 0 /\ fixed_lines >= max_growth_factor * orig_lines)

\* lines 406-421: the size guards
fix_too_large(original_code, fixed_code) ==
    LET orig_lines == LineCount(original_code)
        fixed_lines == LineCount(fixed_code)
    IN \/ fixed_lines > max_fix_lines
       \/ (orig_lines > 0 /\ fixed_lines > max_growth_factor * orig_lines)

\* lines 435-440: the rename happens only after _validate_syntax said True
replace_regardless(v) == TRUE

replace_allowed(v) == v = "valid"

Target == resolve(fix.file_path)

\* no temporary file
NoTmp == [exists |-> FALSE, dir |-> <<>>, data |-> <<>>]

ApplyInit ==
    /\ fix \in [file_path : FilePaths,
                original_code : Texts(CodeChars, MaxOrigLen),
                fixed_code : Texts(CodeChars, MaxFixedLen)]
    /\ file0 \in Texts(CodeChars, MaxFileLen)
    /\ fs = [l \in Files |-> file0]
    /\ tmp = NoTmp
    /\ apc = "resolve"
    /\ aret = FALSE
    /\ content = <<>>
    /\ new_content = <<>>
    /\ verdict = None
    /\ io = <<>>

ApplyReturn(value) ==
    /\ aret' = value
    /\ apc' = "done"

\* lines 381-386
ApplyResolve ==
    /\ apc = "resolve"
    /\ IF ~is_relative_to(Target, repo_path)
         THEN ApplyReturn(FALSE)
         ELSE apc' = "exists" /\ aret' = aret
    /\ UNCHANGED <<fix, file0, fs, tmp, content, new_content, verdict, io>>
    /\ UNCHANGED <<ovars, pvars, xvars>>

\* lines 388-390
ApplyExists ==
    /\ apc = "exists"
    /\ IF ~Exists(Target)
         THEN ApplyReturn(FALSE)
         ELSE apc' = "read" /\ aret' = aret
    /\ UNCHANGED <<fix, file0, fs, tmp, content, new_content, verdict, io>>
    /\ UNCHANGED <<ovars, pvars, xvars>>

\* line 392: read_text raises on a directory (caught at line 450)
ApplyRead ==
    /\ apc = "read"
    /\ io' = Append(io, <<"read", Target>>)
    /\ IF Target \in Directories
         THEN ApplyReturn(FALSE) /\ content' = content
         ELSE /\ content' = fs[Target]
              /\ apc' = "match"
              /\ aret' = aret
    /\ UNCHANGED <<fix, file0, fs, tmp, new_content, verdict>>
    /\ UNCHANGED <<ovars, pvars, xvars>>

\* lines 394-424
ApplyMatch ==
    /\ apc = "match"
    /\ IF match_rejected(str_count(content, fix.original_code))
         THEN ApplyReturn(FALSE) /\ new_content' = new_content
       ELSE IF fix_too_large(fix.original_code, fix.fixed_code)
         THEN ApplyReturn(FALSE) /\ new_content' = new_content
       ELSE /\ new_content' = str_replace_first(content, fix.original_code,
                                                fix.fixed_code)
            /\ apc' = "mkstemp"
            /\ aret' = aret
    /\ UNCHANGED <<fix, file0, fs, tmp, content, verdict, io>>
    /\ UNCHANGED <<ovars, pvars, xvars>>

\* lines 427-429: the temporary file is created, empty, next to the target;
\* mkstemp may raise OSError (caught at line 450)
ApplyMkstemp ==
    /\ apc = "mkstemp"
    /\ \E created \in BOOLEAN :
         IF created
           THEN /\ tmp' = [exists |-> TRUE, dir |-> Front(Target),
                            data |-> <<>>]
                /\ io' = Append(io, <<"create", Front(Target)>>)
                /\ apc' = "write"
                /\ aret' = aret
           ELSE /\ ApplyReturn(FALSE)
                /\ UNCHANGED <<tmp, io>>
    /\ UNCHANGED <<fix, file0, fs, content, new_content, verdict>>
    /\ UNCHANGED <<ovars, pvars, xvars>>

\* the mutation target: the classic write-then-verify, straight into the
\* target file
ApplyWrite_in_place ==
    /\ apc = "write"
    /\ io' = Append(io, <<"write", Target>>)
    /\ fs' = [fs EXCEPT ![Target] = new_content]
    /\ tmp' = [tmp EXCEPT !.data = new_content]
    /\ apc' = "validate"
    /\ UNCHANGED <<fix, file0, aret, content, new_content, verdict>>
    /\ UNCHANGED <<ovars, pvars, xvars>>

\* lines 431-432: the new content goes to the temporary file; a failing
\* write leaves it incomplete and raises
ApplyWrite ==
    /\ apc = "write"
    /\ io' = Append(io, <<"write", tmp.dir>>)
    /\ \E written \in BOOLEAN :
         IF written
           THEN /\ tmp' = [tmp EXCEPT !.data = new_content]
                /\ apc' = "validate"
                /\ aret' = aret
           ELSE /\ tmp' = tmp
                /\ apc' = "finally"
                /\ aret' = FALSE
    /\ UNCHANGED <<fix, file0, fs, content, new_content, verdict>>
    /\ UNCHANGED <<ovars, pvars, xvars>>

\* lines 434-437: _validate_syntax on the temporary file; which verdict the
\* verifier gives is the environment's choice, and a verifier may raise
ApplyValidate ==
    /\ apc = "validate"
    /\ \E v \in {"valid", "invalid", "raise"} :
         /\ verdict' = v
         /\ IF replace_allowed(v)
              THEN apc' = "replace" /\ aret' = aret
              ELSE apc' = "finally" /\ aret' = FALSE
    /\ UNCHANGED <<fix, file0, fs, tmp, content, new_content, io>>
    /\ UNCHANGED <<ovars, pvars, xvars>>

\* lines 439-442: os.replace(tmp_path, file_path), atomic; it may raise
ApplyReplace ==
    /\ apc = "replace"
    /\ \E replaced \in BOOLEAN :
         IF replaced
           THEN /\ fs' = [fs EXCEPT ![Target] = tmp.data]
                /\ tmp' = NoTmp
                /\ io' = Append(io, <<"replace", Target>>)
                /\ aret' = TRUE
           ELSE /\ UNCHANGED <<fs, tmp, io>>
                /\ aret' = FALSE
    /\ apc' = "finally"
    /\ UNCHANGED <<fix, file0, content, new_content, verdict>>
    /\ UNCHANGED <<ovars, pvars, xvars>>

\* the mutation target: a finally block that deletes nothing
ApplyFinally_keeps_tmp ==
    /\ apc = "finally"
    /\ apc' = "done"
    /\ UNCHANGED <<fix, file0, fs, tmp, aret, content, new_content, verdict, io>>
    /\ UNCHANGED <<ovars, pvars, xvars>>

\* lines 443-448: unlink the temporary file if it still exists
ApplyFinally ==
    /\ apc = "finally"
    /\ tmp' = NoTmp
    /\ apc' = "done"
    /\ UNCHANGED <<fix, file0, fs, aret, content, new_content, verdict, io>>
    /\ UNCHANGED <<ovars, pvars, xvars>>

NextApply ==
    \/ ApplyResolve
    \/ ApplyExists
    \/ ApplyRead
    \/ ApplyMatch
    \/ ApplyMkstemp
    \/ ApplyWrite
    \/ ApplyValidate
    \/ ApplyReplace
    \/ ApplyFinally

\* ------------------------------------------------------------------------
\* Properties of apply_fix (checked under SpecApply)
\* ------------------------------------------------------------------------
\* the files as they were before the call
Files0 == [l \in Files |-> file0]

\* a location lies inside the repository root /r
Inside(loc) == Len(loc) >= 1 /\ loc[1] = <<"r">>

\* the number of places at which sub occurs in s, overlapping or not
Occurrences(s, sub) ==
    Cardinality({i \in 1..(Len(s) + 1) : MatchAt(s, sub, i)})

\* C3: during apply_fix the files change at most once, and only by the
\* rename of the temporary file over the target after _validate_syntax
\* returned True for it: every step that changes a file is the replace
\* step, taken with a "valid" verdict, from the untouched original files,
\* and it installs exactly the complete new content.
C3_ChangeOnlyByVerifiedRename ==
    [][ fs' # fs =>
          /\ apc = "replace"
          /\ verdict = "valid"
          /\ fs = Files0
          /\ tmp.exists /\ tmp.data = new_content
          /\ fs' = [fs EXCEPT ![Target] = new_content] ]_vars

\* C3 witness: a verified rename has changed the target
C3_Witness ==
    /\ apc = "done"
    /\ aret = TRUE
    /\ verdict = "valid"
    /\ fs[InsideFile] # file0

\* C4: if the syntax verifier rejects the patched content, apply_fix
\* returns False and every file holds the content it had before the call.
C4_RejectedPatchLeavesFile ==
    verdict = "invalid" =>
        /\ fs = Files0
        /\ apc = "done" => aret = FALSE

\* C4 witness: a patch that would have changed the file was rejected
C4_Witness ==
    /\ apc = "done"
    /\ verdict = "invalid"
    /\ new_content # file0
    /\ ~tmp.exists
    /\ aret = FALSE

\* C5 as claimed: if original_code occurs zero times or two or more times
\* in the target file, apply_fix returns False and the file is unchanged.
C5_AmbiguousMatchRejected ==
    (apc = "done" /\ Occurrences(file0, fix.original_code) # 1) =>
        (aret = FALSE /\ fs = Files0)

\* C6: apply_fix never creates or modifies a file outside the repository
\* root: the outside file keeps its content, the temporary file and every
\* file operation are inside the root, and for a file_path that resolves
\* outside the root it returns False with no file read, created or written.
C6_NothingOutsideRoot ==
    /\ fs[OutsideFile] = file0
    /\ tmp.exists => Inside(tmp.dir)
    /\ \A k \in 1..Len(io) : Inside(io[k][2])
    /\ ~Inside(Target) =>
          /\ io = <<>>
          /\ ~tmp.exists
          /\ apc = "done" => aret = FALSE

\* C6 witness: a path leaving the root through the symbolic link was refused
C6_Witness ==
    /\ apc = "done"
    /\ fix.file_path = <<"l", "/", "e">>
    /\ Target = OutsideFile
    /\ str_count(file0, fix.original_code) = 1
    /\ aret = FALSE

\* ========================================================================
\* Response validator: LLMFixResponse and CodeAnalyzer._parse_llm_response
\* ========================================================================
\* Strings are sequences of one-character strings.  The file_path alphabet
\* has a name character, the dot, both separators and the null byte; it has
\* no ':' and no '?', so the drive-letter and the extended-prefix rules of
\* PureWindowsPath never apply to the enumerated paths.
NUL == "NUL"
PathChars == {"a", ".", "/", "\\", NUL}
DotDot == <<".", ".">>

\* str.find(c, start) on 1-based positions; 0 where Python answers -1
str_find(s, c, start) ==
    IF \E i \in start..Len(s) : s[i] = c
      THEN CHOOSE i \in start..Len(s) :
               s[i] = c /\ \A j \in start..(i - 1) : s[j] # c
      ELSE 0

\* str.lstrip(c)
str_lstrip(s, c) ==
    IF \A i \in 1..Len(s) : s[i] = c
      THEN <<>>
      ELSE LET k == CHOOSE i \in 1..Len(s) :
                        s[i] # c /\ \A j \in 1..(i - 1) : s[j] = c
           IN SubSeq(s, k, Len(s))

\* str.replace(old, new) for single characters
str_replace_char(s, old, new) ==
    [i \in 1..Len(s) |-> IF s[i] = old THEN new ELSE s[i]]

\* pathlib's splitroot for the POSIX flavour: anchor (drive + root) and the
\* relative remainder
posix_splitroot(part) ==
    IF Len(part) > 0 /\ part[1] = "/"
      THEN LET stripped == str_lstrip(part, "/")
           IN [anchor |-> IF Len(part) - Len(stripped) = 2
                            THEN <<"/", "/">> ELSE <<"/">>,
               rel |-> stripped]
      ELSE [anchor |-> <<>>, rel |-> part]

\* pathlib's splitroot for the Windows flavour, after altsep '/' has been
\* replaced by '\': a part that starts with exactly two separators and
\* names a machine and a mount point is a UNC drive, and everything up to
\* the end of the mount point belongs to the anchor
windows_splitroot(part) ==
    LET sep == "\\"
        n == Len(part)
        first_is_sep == n >= 1 /\ part[1] = sep
        second_is_sep == n >= 2 /\ part[2] = sep
        third_is_sep == n >= 3 /\ part[3] = sep
        index == str_find(part, sep, 3)
        index2 == str_find(part, sep, index + 1)
        plain == IF first_is_sep
                   THEN [anchor |-> <<sep>>, rel |-> str_lstrip(part, sep)]
                   ELSE [anchor |-> <<>>, rel |-> part]
    IN IF second_is_sep /\ first_is_sep /\ ~third_is_sep
         THEN IF index # 0 /\ index2 # index + 1
                THEN LET stop == IF index2 = 0 THEN n + 1 ELSE index2
                     IN [anchor |-> SubSeq(part, 1, stop - 1) \o <<sep>>,
                         rel |-> SubSeq(part, stop + 1, n)]
                ELSE plain
         ELSE plain

\* PurePosixPath(v).parts
PurePosixParts(v) ==
    LET sr == posix_splitroot(v)
    IN (IF sr.anchor # <<>> THEN <<sr.anchor>> ELSE <<>>)
         \o SelectParts(str_split(sr.rel, "/"))

\* PureWindowsPath(v).parts
PureWindowsParts(v) ==
    LET sr == windows_splitroot(str_replace_char(v, "/", "\\"))
    IN (IF sr.anchor # <<>> THEN <<sr.anchor>> ELSE <<>>)
         \o SelectParts(str_split(sr.rel, "\\"))

InParts(x, parts) == \E i \in 1..Len(parts) : parts[i] = x

\* LLMFixResponse.validate_file_path raises ValueError
validate_file_path(v) ==
    /\ Len(v) > 0
    /\ \/ \E i \in 1..Len(v) : v[i] = NUL
       \/ v[1] = "/"
       \/ InParts(DotDot, PurePosixParts(v))
       \/ InParts(DotDot, PureWindowsParts(v))

\* str.lower() on the characters a confidence value is made of
ConfChars == {"h", "i", "g", "H", "I", "G", "l", "o", "w", " "}
char_lower(c) ==
    CASE c = "H" -> "h"
      [] c = "I" -> "i"
      [] c = "G" -> "g"
      [] OTHER -> c
str_lower(s) == [i \in 1..Len(s) |-> char_lower(s[i])]

High == <<"h", "i", "g", "h">>
Confidences ==
    { High,
      <<"H", "I", "G", "H">>,
      <<"H", "i", "g", "h">>,
      <<"h", "i", "g", "h", " ">>,
      <<"l", "o", "w">>,
      <<>> }

\* the text the model sent: what _extract_json and json.loads make of it
\*   no_object     : no balanced {...} span, _extract_json returns None
\*   invalid       : json.loads fails, also after _fix_json_newlines
\*   bare_newlines : json.loads fails, succeeds after _fix_json_newlines
\*   valid         : json.loads succeeds
JsonKinds == {"no_object", "invalid", "bare_newlines", "valid"}
extract_json(r) == r.json # "no_object"
fix_json_newlines(kind) == IF kind = "bare_newlines" THEN "valid" ELSE kind
json_loads(kind) == kind = "valid"

\* found_bug as the JSON object carries it; the field has no default, so
\* model_validate fails when it is missing
FoundBug == {"true", "false", "missing"}

TextValues == {<<>>, <<"x">>}
TextFields ==
    {"bug_description", "fix_description", "original_code", "fixed_code",
     "pr_title", "pr_body"}

ResponseOf(json, found_bug, file_path, texts, confidence) ==
    [json |-> json, found_bug |-> found_bug, file_path |-> file_path,
     bug_description |-> texts["bug_description"],
     fix_description |-> texts["fix_description"],
     original_code |-> texts["original_code"],
     fixed_code |-> texts["fixed_code"],
     pr_title |-> texts["pr_title"],
     pr_body |-> texts["pr_body"],
     confidence |-> confidence]

\* well-formed high-confidence responses with every file_path up to
\* MaxPathLen, and responses of every shape with a few file paths
Responses ==
    { ResponseOf("valid", "true", p, [f \in TextFields |-> <<"x">>], c) :
          p \in Texts(PathChars, MaxPathLen), c \in {High, <<"H", "I", "G", "H">>} }
    \cup
    { ResponseOf(j, b, p, t, c) :
          j \in JsonKinds, b \in FoundBug,
          p \in {<<>>, <<"a">>, <<".", ".", "/", "a">>},
          t \in [TextFields -> TextValues], c \in Confidences }

\* LLMFixResponse.model_validate raises ValidationError
model_validate_fails(r) ==
    \/ r.found_bug = "missing"
    \/ validate_file_path(r.file_path)

required_fields_without_pr_body ==
    <<"file_path", "bug_description", "fix_description",
      "original_code", "fixed_code", "pr_title">>

required_fields ==
    <<"file_path", "bug_description", "fix_description",
      "original_code", "fixed_code", "pr_title", "pr_body">>

FixSuggestion(r, confidence) ==
    [file_path |-> r.file_path,
     bug_description |-> r.bug_description,
     fix_description |-> r.fix_description,
     original_code |-> r.original_code,
     fixed_code |-> r.fixed_code,
     pr_title |-> r.pr_title,
     pr_body |-> r.pr_body,
     confidence |-> confidence]

\* the value of a call that returned None
Nothing ==
    [some |-> FALSE,
     fix |-> [file_path |-> <<>>, bug_description |-> <<>>,
              fix_description |-> <<>>, original_code |-> <<>>,
              fixed_code |-> <<>>, pr_title |-> <<>>, pr_body |-> <<>>,
              confidence |-> <<>>]]

parse_llm_response(r) ==
    IF ~extract_json(r) THEN Nothing
    ELSE IF ~json_loads(r.json) /\ ~json_loads(fix_json_newlines(r.json))
      THEN Nothing
    ELSE IF model_validate_fails(r) THEN Nothing
    ELSE IF r.found_bug # "true" THEN Nothing
    ELSE IF \E i \in 1..Len(required_fields) : r[required_fields[i]] = <<>>
      THEN Nothing
    ELSE LET confidence == str_lower(r.confidence)
         IN IF confidence # High
              THEN Nothing
              ELSE [some |-> TRUE, fix |-> FixSuggestion(r, confidence)]

\* lines 229-246: the exception raised inside the try block of
\* _parse_llm_response: the second json.loads raises JSONDecodeError,
\* model_validate raises ValidationError
raised_in_try(r) ==
    IF ~extract_json(r) THEN None
    ELSE IF ~json_loads(r.json) /\ ~json_loads(fix_json_newlines(r.json))
      THEN "JSONDecodeError"
    ELSE IF model_validate_fails(r) THEN "ValidationError"
    ELSE None

\* the mutation target: a handler for JSON errors alone
parse_except_json_only(exc) == exc = "JSONDecodeError"

\* lines 280-285: except json.JSONDecodeError, except Exception: the
\* exception is logged and None returned
parse_except(exc) == exc \in {"JSONDecodeError", "ValidationError"}

\* code_analyzer.py 160-186: analyze() after the model answered: the
\* AnalysisResult built from the parsed fix, or the one of the outer except
\* clause when _parse_llm_response raised
analyze(r) ==
    LET exc == raised_in_try(r) IN
      IF exc # None /\ ~parse_except(exc)
        THEN [found_fix |-> FALSE, error |-> exc]
        ELSE [found_fix |-> parse_llm_response(r).some, error |-> None]

NotAnalyzed == [found_fix |-> FALSE, error |-> None]

NotApplied ==
    [reached |-> FALSE, called |-> FALSE, file_path |-> <<>>, error |-> None]

ParseInit ==
    /\ response \in Responses
    /\ parsed = [done |-> FALSE, result |-> Nothing, analysis |-> NotAnalyzed]
    /\ apply_call = NotApplied

\* CodeAnalyzer.analyze hands the model's text to _parse_llm_response
ParseLlmResponse ==
    /\ ~parsed.done
    /\ parsed' = [done |-> TRUE, result |-> parse_llm_response(response),
                  analysis |-> analyze(response)]
    /\ UNCHANGED <<response, apply_call>>
    /\ UNCHANGED <<ovars, avars, xvars>>

\* _analyze_and_fix with the analysis result: no fix ends the pipeline; with
\* a fix it may end at the rejected-fix lookup or at create_branch, and
\* otherwise calls apply_fix with the suggestion
PipelineApplyFix ==
    /\ parsed.done
    /\ ~apply_call.reached
    /\ IF ~parsed.analysis.found_fix \/ ~parsed.result.some
         THEN apply_call' = [NotApplied EXCEPT !.reached = TRUE,
                               !.error = "No actionable fixes identified"]
         ELSE \E outcome \in {"previously_rejected", "branch_failed", "apply"} :
                apply_call' =
                  IF outcome = "apply"
                    THEN [reached |-> TRUE, called |-> TRUE,
                          file_path |-> parsed.result.fix.file_path,
                          error |-> None]
                  ELSE IF outcome = "previously_rejected"
                    THEN [NotApplied EXCEPT !.reached = TRUE,
                            !.error = "Fix previously rejected"]
                  ELSE [NotApplied EXCEPT !.reached = TRUE,
                          !.error = "Failed to create branch"]
    /\ UNCHANGED <<response, parsed>>
    /\ UNCHANGED <<ovars, avars, xvars>>

NextParse ==
    \/ ParseLlmResponse
    \/ PipelineApplyFix

\* ------------------------------------------------------------------------
\* Properties of the response validator
\* ------------------------------------------------------------------------
\* s has a '..' segment when split on the separator sep
DotDotSegment(s, sep) ==
    \E i \in 1..(Len(s) - 1) :
        /\ s[i] = "." /\ s[i + 1] = "."
        /\ (i = 1 \/ s[i - 1] = sep)
        /\ (i + 1 = Len(s) \/ s[i + 2] = sep)

SuspiciousPath(p) ==
    \/ p = <<>>
    \/ \E i \in 1..Len(p) : p[i] = NUL
    \/ p[1] = "/"
    \/ DotDotSegment(p, "/")
    \/ DotDotSegment(p, "\\")

\* C7 as claimed: _parse_llm_response returns nothing for every response
\* whose file_path is empty, holds a null byte, starts with '/' or has a
\* '..' segment under the forward-slash or the back-slash reading, and the
\* pipeline never calls apply_fix with such a path.
C7_SuspiciousPathNeverReturned ==
    /\ parsed.done /\ SuspiciousPath(response.file_path) => ~parsed.result.some
    /\ apply_call.called => ~SuspiciousPath(apply_call.file_path)

IsHigh(c) ==
    /\ Len(c) = 4
    /\ c[1] \in {"h", "H"} /\ c[2] \in {"i", "I"}
    /\ c[3] \in {"g", "G"} /\ c[4] \in {"h", "H"}

AllFields == {"file_path"} \cup TextFields

\* C8: every FixSuggestion returned by _parse_llm_response has confidence
\* 'high' and non-empty file_path, bug_description, fix_description,
\* original_code, fixed_code, pr_title and pr_body; a response whose
\* confidence is not 'high' in any letter case, or with one of these fields
\* empty, yields nothing.
C8_OnlyHighConfidenceCompleteFixes ==
    parsed.done =>
        /\ parsed.result.some =>
               /\ parsed.result.fix.confidence = High
               /\ \A f \in AllFields : parsed.result.fix[f] # <<>>
        /\ (~IsHigh(response.confidence)
              \/ \E f \in AllFields : response[f] = <<>>) => ~parsed.result.some

C8_Witness ==
    /\ parsed.done
    /\ parsed.result.some
    /\ response.confidence = <<"H", "I", "G", "H">>
    /\ parsed.result.fix.confidence = High
    /\ response.json = "bare_newlines"

\* the response holds a JSON object, as sent or after the newline repair
WellFormed(r) == r.json \in {"valid", "bare_newlines"}

\* C24: for every well-formed response object with found_bug = false,
\* whatever its other fields hold, _parse_llm_response returns nothing and
\* raises nothing, so that analyze() reports no fix and no error and the
\* pipeline records the repository as one without an actionable fix
C24_NoBugYieldsNoFixAndNoError ==
    parsed.done /\ WellFormed(response) /\ response.found_bug = "false" =>
        /\ ~parsed.result.some
        /\ parsed.analysis = [found_fix |-> FALSE, error |-> None]
        /\ apply_call.reached =>
               /\ ~apply_call.called
               /\ apply_call.error = "No actionable fixes identified"

\* a response complete in every field and of high confidence, which says
\* found_bug = false
C24_Witness ==
    /\ apply_call.reached
    /\ response.json = "valid"
    /\ response.found_bug = "false"
    /\ response.confidence = High
    /\ \A f \in TextFields : response[f] # <<>>
    /\ response.file_path = <<"a">>
    /\ ~parsed.result.some
    /\ apply_call.error = "No actionable fixes identified"

\* ========================================================================
\* JSON extraction and newline repair: CodeAnalyzer._extract_json and
\* CodeAnalyzer._fix_json_newlines (SpecJson)
\* ========================================================================
QUOTE == "\""
BACKSLASH == "\\"
CR == "\r"
TAB == "\t"
\* a fence of three backquotes, written as one character that is none of
\* the characters the scan looks for
FENCE == "~"

\* the characters of the texts handed to _extract_json: FENCE also stands
\* for any prose character
ExtractChars == {"{", "}", QUOTE, BACKSLASH, FENCE}

\* the characters of the texts handed to _fix_json_newlines
RepairChars == {QUOTE, BACKSLASH, NL, CR, TAB, "n"}

\* the mutation target: brace matching that does not track strings
RECURSIVE match_braces_string_blind(_, _, _, _, _)
match_braces_string_blind(text, start, i, depth, in_string) ==
    IF i > Len(text) THEN <<>>
    ELSE IF text[i] = "{"
      THEN match_braces_string_blind(text, start, i + 1, depth + 1, FALSE)
    ELSE IF text[i] = "}"
      THEN IF depth - 1 = 0
             THEN <<SubSeq(text, start, i)>>
             ELSE match_braces_string_blind(text, start, i + 1, depth - 1, FALSE)
    ELSE match_braces_string_blind(text, start, i + 1, depth, FALSE)

\* code_analyzer.py 310-333: the loop of _extract_json from position i
\* (1-based) with its locals depth and in_string; <<>> is None
RECURSIVE match_braces(_, _, _, _, _)
match_braces(text, start, i, depth, in_string) ==
    IF i > Len(text) THEN <<>>
    ELSE LET ch == text[i] IN
      IF in_string
        THEN IF ch = BACKSLASH /\ i + 1 <= Len(text)
               THEN match_braces(text, start, i + 2, depth, TRUE)
             ELSE IF ch = QUOTE
               THEN match_braces(text, start, i + 1, depth, FALSE)
             ELSE match_braces(text, start, i + 1, depth, TRUE)
      ELSE IF ch = QUOTE
        THEN match_braces(text, start, i + 1, depth, TRUE)
      ELSE IF ch = "{"
        THEN match_braces(text, start, i + 1, depth + 1, FALSE)
      ELSE IF ch = "}"
        THEN IF depth - 1 = 0
               THEN <<SubSeq(text, start, i)>>
               ELSE match_braces(text, start, i + 1, depth - 1, FALSE)
      ELSE match_braces(text, start, i + 1, depth, FALSE)

\* code_analyzer.py 287-333: <<>> is None, <<s>> the JSON string s
extract_json_text(text) ==
    LET start == str_find(text, "{", 1) IN
      IF start = 0 THEN <<>>
      ELSE match_braces(text, start, start, 0, FALSE)

\* the mutation target: a repair pass that takes every quote as a delimiter
RECURSIVE fix_from_every_quote(_, _, _)
fix_from_every_quote(text, i, in_string) ==
    IF i > Len(text) THEN <<>>
    ELSE LET ch == text[i] IN
      IF ch = QUOTE
        THEN <<ch>> \o fix_from_every_quote(text, i + 1, ~in_string)
      ELSE IF ch = NL /\ in_string
        THEN <<BACKSLASH, "n">> \o fix_from_every_quote(text, i + 1, in_string)
      ELSE IF ch = CR /\ in_string
        THEN <<BACKSLASH, "r">> \o fix_from_every_quote(text, i + 1, in_string)
      ELSE IF ch = TAB /\ in_string
        THEN <<BACKSLASH, "t">> \o fix_from_every_quote(text, i + 1, in_string)
      ELSE <<ch>> \o fix_from_every_quote(text, i + 1, in_string)

\* lines 349-353: the backslashes directly before position i
RECURSIVE backslash_count(_, _)
backslash_count(text, i) ==
    IF i - 1 >= 1 /\ text[i - 1] = BACKSLASH
      THEN 1 + backslash_count(text, i - 1)
      ELSE 0

\* code_analyzer.py 343-368: the loop of _fix_json_newlines from position i
RECURSIVE fix_from(_, _, _)
fix_from(text, i, in_string) ==
    IF i > Len(text) THEN <<>>
    ELSE LET ch == text[i] IN
      IF ch = QUOTE
        THEN <<ch>> \o fix_from(text, i + 1,
                                IF backslash_count(text, i) % 2 = 0
                                  THEN ~in_string ELSE in_string)
      ELSE IF ch = NL /\ in_string
        THEN <<BACKSLASH, "n">> \o fix_from(text, i + 1, in_string)
      ELSE IF ch = CR /\ in_string
        THEN <<BACKSLASH, "r">> \o fix_from(text, i + 1, in_string)
      ELSE IF ch = TAB /\ in_string
        THEN <<BACKSLASH, "t">> \o fix_from(text, i + 1, in_string)
      ELSE <<ch>> \o fix_from(text, i + 1, in_string)

fix_json_newlines_text(text) == fix_from(text, 1, FALSE)

\* what can stand before and after the object in a response: nothing, an
\* opening or closing fence (or a prose character), prose with a quote and
\* a brace; the object's "{" is the first of the response
ProseBefore == {<<>>, <<FENCE>>, <<"}", QUOTE>>}
ProseAfter == {<<>>, <<FENCE>>, <<QUOTE, "{">>}

\* the text under study, and the function studied on it
JsonInit ==
    /\ \/ jpc = "extract" /\ json_text \in Texts(ExtractChars, MaxExtractLen)
       \/ jpc = "repair" /\ json_text \in Texts(RepairChars, MaxRepairLen)
    /\ extracted = <<>>
    /\ embedded = <<>>
    /\ repaired = <<>>
    /\ repaired_twice = <<>>

\* _extract_json(json_text)
ExtractJson ==
    /\ jpc = "extract"
    /\ extracted' = <<extract_json_text(json_text)>>
    /\ jpc' = "embed"
    /\ UNCHANGED <<json_text, embedded, repaired, repaired_twice>>
    /\ UNCHANGED <<ovars, avars, pvars, uvars>>

\* _extract_json of the same text with prose or a fence around it
ExtractEmbedded ==
    /\ jpc = "embed"
    /\ \E before \in ProseBefore, after \in ProseAfter :
         embedded' = [before |-> before, after |-> after,
                      result |-> extract_json_text(before \o json_text \o after)]
    /\ jpc' = "embedded"
    /\ UNCHANGED <<json_text, extracted, repaired, repaired_twice>>
    /\ UNCHANGED <<ovars, avars, pvars, uvars>>

\* _fix_json_newlines(json_text)
FixJsonNewlines ==
    /\ jpc = "repair"
    /\ repaired' = <<fix_json_newlines_text(json_text)>>
    /\ jpc' = "repair_again"
    /\ UNCHANGED <<json_text, extracted, embedded, repaired_twice>>
    /\ UNCHANGED <<ovars, avars, pvars, uvars>>

\* _fix_json_newlines of the text the first pass returned
FixJsonNewlinesAgain ==
    /\ jpc = "repair_again"
    /\ repaired_twice' = <<fix_json_newlines_text(repaired[1])>>
    /\ jpc' = "repaired"
    /\ UNCHANGED <<json_text, extracted, embedded, repaired>>
    /\ UNCHANGED <<ovars, avars, pvars, uvars>>

NextJson ==
    \/ ExtractJson
    \/ ExtractEmbedded
    \/ FixJsonNewlines
    \/ FixJsonNewlinesAgain

\* ---- what a string-aware scan is, stated without the loop ----
\* how the character at each position from start on is read: "out" outside
\* a string, "in" inside one, "esc" right after a backslash inside one
Reading(text, start) ==
    LET f[k \in start..Len(text)] ==
          IF k = start THEN "out"
          ELSE IF f[k - 1] = "esc" THEN "in"
          ELSE IF f[k - 1] = "in"
            THEN IF text[k - 1] = BACKSLASH THEN "esc"
                 ELSE IF text[k - 1] = QUOTE THEN "out" ELSE "in"
          ELSE IF text[k - 1] = QUOTE THEN "in" ELSE "out"
    IN f

\* how many objects are open after the character at each position
Depth(text, start) ==
    LET reading == Reading(text, start)
        d[k \in start..Len(text)] ==
          LET before == IF k = start THEN 0 ELSE d[k - 1] IN
            IF reading[k] = "out" /\ text[k] = "{" THEN before + 1
            ELSE IF reading[k] = "out" /\ text[k] = "}" THEN before - 1
            ELSE before
    IN d

\* the positions where a brace outside strings closes every open object
Closings(text, start) ==
    LET reading == Reading(text, start)
        depth == Depth(text, start)
    IN {k \in start..Len(text) :
          reading[k] = "out" /\ text[k] = "}" /\ depth[k] = 0}

\* the first top-level object: from the first "{" to its matching "}"
FirstObject(text) ==
    LET start == CHOOSE k \in 1..Len(text) :
                   text[k] = "{" /\ \A j \in 1..(k - 1) : text[j] # "{"
    IN IF \A k \in 1..Len(text) : text[k] # "{" THEN <<>>
       ELSE IF Closings(text, start) = {} THEN <<>>
       ELSE LET end == CHOOSE k \in Closings(text, start) :
                         \A j \in Closings(text, start) : k <= j
            IN <<SubSeq(text, start, end)>>

\* C22: _extract_json returns exactly the first top-level JSON object of the
\* text, from the first "{" to its matching "}", where braces, escaped
\* quotes and fences inside string values do not count; nothing is returned
\* when that object is not balanced; and an object that is returned bare is
\* returned the same when a fence or prose stands around it
C22_ExtractsFirstTopLevelObject ==
    /\ jpc \in {"embed", "embedded"} => extracted[1] = FirstObject(json_text)
    /\ jpc = "embedded" =>
         /\ embedded.result
              = FirstObject(embedded.before \o json_text \o embedded.after)
         /\ extracted[1] = <<json_text>> => embedded.result = <<json_text>>

\* an object whose string value holds a fence and a closing brace, inside a
\* fence, is returned whole
C22_Witness ==
    /\ jpc = "embedded"
    /\ json_text = <<"{", QUOTE, FENCE, "}", QUOTE, "}">>
    /\ extracted[1] = <<json_text>>
    /\ embedded.before = <<FENCE>>
    /\ embedded.after = <<FENCE>>
    /\ embedded.result = <<json_text>>

\* ---- what the repair is, stated position by position ----
\* the length of the run of backslashes that ends right before position j
BackslashRun(text, j) ==
    CHOOSE m \in 0..(j - 1) :
        /\ \A i \in (j - m)..(j - 1) : text[i] = BACKSLASH
        /\ (j - m - 1 >= 1 => text[j - m - 1] # BACKSLASH)

\* a quote that opens or closes a string
Delimiter(text, j) == text[j] = QUOTE /\ BackslashRun(text, j) % 2 = 0

\* position k lies inside a double-quoted string
InString(text, k) ==
    Cardinality({j \in 1..(k - 1) : Delimiter(text, j)}) % 2 = 1

Whitespace == {NL, CR, TAB}

EscapeOf(ch) ==
    IF ch = NL THEN <<BACKSLASH, "n">>
    ELSE IF ch = CR THEN <<BACKSLASH, "r">>
    ELSE <<BACKSLASH, "t">>

\* the text with exactly the whitespace inside strings escaped
RECURSIVE EscapedUpTo(_, _)
EscapedUpTo(text, k) ==
    IF k = 0 THEN <<>>
    ELSE EscapedUpTo(text, k - 1)
           \o (IF text[k] \in Whitespace /\ InString(text, k)
                 THEN EscapeOf(text[k]) ELSE <<text[k]>>)

\* C23: _fix_json_newlines replaces exactly the literal newline, carriage
\* return and tab characters inside double-quoted strings (a quote delimits
\* a string when an even number of backslashes precedes it) by their
\* escapes; a text with none of them inside a string comes back unchanged;
\* and a second pass over the result changes nothing
C23_NewlineRepairIdempotent ==
    /\ jpc \in {"repair_again", "repaired"} =>
         /\ repaired[1] = EscapedUpTo(json_text, Len(json_text))
         /\ (\A k \in 1..Len(json_text) :
                ~(json_text[k] \in Whitespace /\ InString(json_text, k)))
              => repaired[1] = json_text
    /\ jpc = "repaired" => repaired_twice[1] = repaired[1]

\* a newline after an escaped quote, still inside the string, is escaped
\* by the first pass and left alone by the second
C23_Witness ==
    /\ jpc = "repaired"
    /\ json_text = <<QUOTE, BACKSLASH, QUOTE, NL, QUOTE>>
    /\ repaired[1] = <<QUOTE, BACKSLASH, QUOTE, BACKSLASH, "n", QUOTE>>
    /\ repaired_twice[1] = repaired[1]

\* ========================================================================
\* Retried operations: utils.retry, RepoManager.push_branch and _clone_repo,
\* LucidPulls.send_report (SpecRetry)
\* ========================================================================
\* main.py 628-629: the attempts and the pause of send_report
max_attempts == 3
retry_delay == 60

\* what one call of the wrapped function does: it returns, raises an
\* exception of the decorator's exceptions tuple, or raises another one
RetryOutcomes == {"ok", "listed", "unlisted"}
\* origin.push and Repo.clone_from return or raise GitCommandError
GitOutcomes == {"ok", "GitCommandError"}
\* notifier.send_report returns a NotificationResult
SendOutcomes == {"success", "failure"}

RetryConfigs == [max_attempts : 1..MaxAttempts, delay : {1, 2}, backoff : {1, 2}]

\* one more call is scripted than the largest number of attempts
Scripts(outcomes) == [1..(MaxAttempts + 1) -> outcomes]

RetryInit ==
    /\ \/ /\ rop = "retry"
          /\ rcfg \in RetryConfigs
          /\ script \in Scripts(RetryOutcomes)
          /\ current_delay = rcfg.delay
       \/ /\ rop \in {"push_branch", "clone_repo"}
          /\ rcfg = None
          /\ script \in Scripts(GitOutcomes)
          /\ current_delay = 0
       \/ /\ rop = "send_report"
          /\ rcfg = None
          /\ script \in Scripts(SendOutcomes)
          /\ current_delay = 0
    /\ ncalls = 0
    /\ attempt = 1
    /\ sleeps = <<>>
    /\ last_exception = 0
    /\ rstatus = "running"

\* the mutation target: a wrapper that sleeps after every failed attempt
sleeps_after_every_failure(n, cfg) == TRUE

\* utils.py 41: if attempt < max_attempts
sleeps_before_next(n, cfg) == n < cfg.max_attempts

\* utils.py 36-48: one iteration of the wrapper's loop, and the raise after
\* the loop when it was the last one: the call returns (the wrapper returns
\* its value), raises a listed exception (kept in last_exception, followed by
\* the sleep when another attempt is left) or an unlisted one (not caught)
RetryAttempt ==
    /\ rop = "retry" /\ rstatus = "running"
    /\ attempt <= rcfg.max_attempts
    /\ ncalls' = ncalls + 1
    /\ LET outcome == script[ncalls + 1] IN
         IF outcome = "ok"
           THEN /\ rstatus' = "returned"
                /\ UNCHANGED <<attempt, current_delay, sleeps, last_exception>>
         ELSE IF outcome = "unlisted"
           THEN /\ rstatus' = "propagated"
                /\ UNCHANGED <<attempt, current_delay, sleeps, last_exception>>
         ELSE /\ last_exception' = ncalls + 1
              /\ IF sleeps_before_next(attempt, rcfg)
                   THEN /\ sleeps' = Append(sleeps, current_delay)
                        /\ current_delay' = current_delay * rcfg.backoff
                   ELSE UNCHANGED <<sleeps, current_delay>>
              /\ attempt' = attempt + 1
              /\ rstatus' = IF attempt + 1 <= rcfg.max_attempts
                              THEN "running" ELSE "raised"
    /\ UNCHANGED <<rop, rcfg, script>>
    /\ UNCHANGED <<ovars, avars, pvars, qvars>>

\* repo_manager.py 363-381: push_branch calls origin.push once; True, or
\* False when it raised GitCommandError
PushBranch ==
    /\ rop = "push_branch" /\ rstatus = "running"
    /\ ncalls' = ncalls + 1
    /\ rstatus' = IF script[ncalls + 1] = "ok" THEN "True" ELSE "False"
    /\ UNCHANGED <<rop, rcfg, script, attempt, current_delay, sleeps,
                   last_exception>>
    /\ UNCHANGED <<ovars, avars, pvars, qvars>>

\* repo_manager.py 238-255: _clone_repo calls Repo.clone_from once; the
\* Repo, or None when it raised GitCommandError
CloneRepo ==
    /\ rop = "clone_repo" /\ rstatus = "running"
    /\ ncalls' = ncalls + 1
    /\ rstatus' = IF script[ncalls + 1] = "ok" THEN "Repo" ELSE "None"
    /\ UNCHANGED <<rop, rcfg, script, attempt, current_delay, sleeps,
                   last_exception>>
    /\ UNCHANGED <<ovars, avars, pvars, qvars>>

\* the mutation target: a loop that does not look at the result
report_sent_ignored(result) == FALSE

\* main.py 633: if result.success
report_sent(result) == result = "success"

\* main.py 630-644: one iteration of the delivery loop of send_report
SendReportAttempt ==
    /\ rop = "send_report" /\ rstatus = "running"
    /\ attempt <= max_attempts
    /\ ncalls' = ncalls + 1
    /\ IF report_sent(script[ncalls + 1])
         THEN /\ rstatus' = "sent"
              /\ UNCHANGED <<attempt, sleeps>>
         ELSE /\ sleeps' = IF attempt < max_attempts
                             THEN Append(sleeps, retry_delay) ELSE sleeps
              /\ attempt' = attempt + 1
              /\ rstatus' = IF attempt + 1 <= max_attempts
                              THEN "running" ELSE "gave_up"
    /\ UNCHANGED <<rop, rcfg, script, current_delay, last_exception>>
    /\ UNCHANGED <<ovars, avars, pvars, qvars>>

NextRetry ==
    \/ RetryAttempt
    \/ PushBranch
    \/ CloneRepo
    \/ SendReportAttempt

\* ------------------------------------------------------------------------
\* Properties of the retried operations
\* ------------------------------------------------------------------------
RECURSIVE Power(_, _)
Power(b, k) == IF k = 0 THEN 1 ELSE b * Power(b, k - 1)

\* the first n calls all raise a listed exception
AllListed(n) == \A k \in 1..n : script[k] = "listed"

\* the pauses after the first m failed attempts: d, d*b, ..., d*b^(m-1)
Backoff(m) == [k \in 1..m |-> rcfg.delay * Power(rcfg.backoff, k - 1)]

\* C26: a function wrapped by retry(max_attempts=n, delay=d, backoff=b) is
\* called at most n times; the first call that succeeds ends the attempts
\* and its value is returned; when all n calls raise a listed exception the
\* last one is re-raised after exactly n calls, with a sleep of d*b^(k-1)
\* between call k and call k+1 and none after the last; an exception that
\* is not listed leaves the wrapper from the call that raised it, unretried
C26_RetryAtMostNWithBackoff ==
    rop = "retry" =>
      /\ ncalls <= rcfg.max_attempts
      /\ rstatus = "running" =>
           /\ ncalls < rcfg.max_attempts
           /\ AllListed(ncalls)
           /\ sleeps = Backoff(ncalls)
      /\ rstatus = "returned" =>
           /\ script[ncalls] = "ok"
           /\ AllListed(ncalls - 1)
           /\ sleeps = Backoff(ncalls - 1)
      /\ rstatus = "raised" =>
           /\ ncalls = rcfg.max_attempts
           /\ AllListed(ncalls)
           /\ last_exception = ncalls
           /\ sleeps = Backoff(ncalls - 1)
      /\ rstatus = "propagated" =>
           /\ script[ncalls] = "unlisted"
           /\ AllListed(ncalls - 1)
           /\ sleeps = Backoff(ncalls - 1)
      /\ (script[1] = "unlisted" /\ rstatus # "running") =>
           rstatus = "propagated" /\ ncalls = 1 /\ sleeps = <<>>

\* three attempts with delay 2 and backoff 2 that all fail: sleeps 2 and 4
C26_Witness ==
    /\ rop = "retry"
    /\ rcfg = [max_attempts |-> 3, delay |-> 2, backoff |-> 2]
    /\ rstatus = "raised"
    /\ ncalls = 3
    /\ last_exception = 3
    /\ sleeps = <<2, 4>>

\* test_production_readiness.py 304, 330, 355, 376: the attempts the git operations
\* are to make
git_attempts == 3

\* the first of the first n calls that succeeds, 0 when none does
FirstOk(n) ==
    IF \E k \in 1..n : script[k] = "ok"
      THEN CHOOSE k \in 1..n : script[k] = "ok" /\ \A j \in 1..(k - 1) : script[j] # "ok"
      ELSE 0

\* C27: push_branch and _clone_repo retry on GitCommandError: they make up
\* to three attempts, succeed as soon as one attempt succeeds (two failures
\* and a success: success after exactly three calls), and report failure
\* (False / None) only after three failed attempts
C27_GitOperationsRetryThreeTimes ==
    (rop \in {"push_branch", "clone_repo"} /\ rstatus # "running") =>
      IF FirstOk(git_attempts) # 0
        THEN rstatus \in {"True", "Repo"} /\ ncalls = FirstOk(git_attempts)
        ELSE rstatus \in {"False", "None"} /\ ncalls = git_attempts

\* the delivery attempts so far all failed
AllFailed(n) == \A k \in 1..n : script[k] = "failure"

LinesOf(letter, n) == <<letter>> \o [i \in 1..(n - 1) |-> NL]

\* the line counts explored: small ones, and those around 200 lines and
\* around three times the original's
OrigLineCounts == {1, 66, 67}
FixedLineCounts == {1, 3, 4, 198, 199, 200, 201}

\* apply_fix called on a file that holds exactly the original code
SizeInit ==
    /\ \E o \in OrigLineCounts, f \in FixedLineCounts :
         /\ fix = [file_path |-> <<"f">>,
                   original_code |-> LinesOf("a", o),
                   fixed_code |-> LinesOf("b", f)]
         /\ file0 = LinesOf("a", o)
    /\ fs = [l \in Files |-> file0]
    /\ tmp = NoTmp
    /\ apc = "resolve"
    /\ aret = FALSE
    /\ content = <<>>
    /\ new_content = <<>>
    /\ verdict = None
    /\ io = <<>>

\* the number of newline characters of a text, plus one
Newlines(code) == Cardinality({i \in 1..Len(code) : code[i] = NL})
Lines(code) == Newlines(code) + 1

\* more than 200 lines, or more than 3.0 times the original's lines
Oversized ==
    \/ Lines(fix.fixed_code) > 200
    \/ Lines(fix.fixed_code) > 3 * Lines(fix.original_code)

\* C38: apply_fix rejects (returns False, file unchanged) every fix whose
\* fixed_code has more than 200 lines or whose fixed-to-original line-count
\* ratio exceeds 3.0, a text's line count being its number of newline
\* characters plus one; a fix at exactly 200 lines or at exactly ratio 3.0
\* is not rejected by this guard (it goes on to the temporary file).
C38_OversizedFixRejected ==
    /\ [](Oversized =>
            /\ fs = [l \in Files |-> file0]
            /\ ~tmp.exists
            /\ apc = "done" => aret = FALSE)
    /\ [][ (apc = "match" /\ apc' # "match") =>
             IF Oversized THEN apc' = "done" /\ aret' = FALSE
                          ELSE apc' = "mkstemp" ]_vars

\* C38 witness: a fix of 201 lines for an original of 67, exactly three
\* times as long, has been rejected
C38_Witness ==
    /\ apc = "done"
    /\ Lines(fix.fixed_code) = 201
    /\ Lines(fix.original_code) = 67
    /\ aret = FALSE
    /\ io = << <<"read", Target>> >>

\* apply_fix has returned: True, False, or False from the handler of an
\* exception raised inside it
ApplyFixReturned == apc = "done"

\* C40: when apply_fix returns, whether True, False or after an internally
\* caught exception, the temporary file it created next to the target no
\* longer exists: it was renamed over the target or deleted.
C40_NoTemporaryFileLeft ==
    /\ [](ApplyFixReturned => ~tmp.exists)
    /\ [][ (tmp.exists /\ ~tmp'.exists) =>
             \/ apc = "replace" /\ fs'[Target] = tmp.data
             \/ apc = "finally" /\ fs' = fs ]_vars
    /\ [][ (~tmp.exists /\ tmp'.exists) => tmp'.dir = Front(Target) ]_vars

\* C40 witness: apply_fix returned False after the write to the temporary
\* file raised, and the temporary file is gone
C40_Witness ==
    /\ ApplyFixReturned
    /\ aret = FALSE
    /\ verdict = None
    /\ Len(io) = 3
    /\ io[2][1] = "create"
    /\ io[3][1] = "write"
    /\ ~tmp.exists

\* ========================================================================
\* Syntax Verifier: CodeAnalyzer._validate_syntax and the validators that
\* run an external checker (SpecSyntax)
\* ========================================================================
\* the suffixes dispatched to an external checker (lines 467-476)
Suffixes == {".js", ".jsx", ".ts", ".tsx", ".go", ".java", ".rs"}

\* The diagnostics a checker prints, each with what it is about ("syntax":
\* the file does not parse; "context": the single file is checked without
\* its imports, types or project) and its text, cut into the pieces the
\* validators search for.
Diagnostics(sfx) ==
    CASE sfx \in {".js", ".jsx"} ->
           {[about |-> "syntax", text |-> <<"SyntaxError: ", "Unexpected token">>]}
      [] sfx \in {".ts", ".tsx"} ->
           {[about |-> "syntax", text |-> <<"error TS", "1", "005: ';' expected.">>],
            [about |-> "context", text |-> <<"error TS", "2", "304: Cannot find name">>]}
      [] sfx = ".go" ->
           {[about |-> "syntax", text |-> <<"syntax error: ", "unexpected }">>],
            [about |-> "context", text |-> <<"could not import">>]}
      [] sfx = ".java" ->
           {[about |-> "syntax", text |-> <<"error:", " ';' expected">>],
            [about |-> "context", text |-> <<"error:", " ", "cannot find symbol">>]}
      [] sfx = ".rs" ->
           {[about |-> "syntax", text |-> <<"error", ": expected one of">>],
            [about |-> "syntax", text |-> <<"error[E", "0765]: unterminated double quote string">>],
            [about |-> "context", text |-> <<"error[E", "0425]: ", "cannot find", " value">>],
            [about |-> "context", text |-> <<"error[E", "0432]: unresolved import">>]}

DiagnosticLists(sfx) ==
    UNION {[1..n -> Diagnostics(sfx)] : n \in 1..MaxDiagnostics}

\* what subprocess.run does: the checker exits with 0, exits with 1 and the
\* diagnostics it printed, or the call raises
Runs(sfx) ==
    {[kind |-> k, returncode |-> 0, diagnostics |-> <<>>] :
        k \in {"exit", "FileNotFoundError", "TimeoutExpired", "OSError"}}
    \cup {[kind |-> "exit", returncode |-> 1, diagnostics |-> d] :
            d \in DiagnosticLists(sfx)}

RECURSIVE Output(_)
\* result.stdout + result.stderr: the diagnostics one after the other
Output(d) == IF d = <<>> THEN <<>> ELSE Head(d).text \o Output(Tail(d))

\* Python's "needle in text"
Contains(text, needle) ==
    \E i \in 0..(Len(text) - Len(needle)) :
        SubSeq(text, i + 1, i + Len(needle)) = needle

Verdict(ok, log) == [ok |-> ok, log |-> log]

\* lines 500-525
validate_js_syntax(r) ==
    CASE r.kind = "exit" -> Verdict(r.returncode = 0, "none")
      [] r.kind = "FileNotFoundError" -> Verdict(FALSE, "warning")
      [] r.kind = "TimeoutExpired" -> Verdict(FALSE, "warning")
      [] OTHER -> Verdict(FALSE, "error")

\* lines 527-569
validate_ts_syntax(r) ==
    CASE r.kind = "exit" ->
           IF r.returncode = 0 THEN Verdict(TRUE, "none")
           ELSE IF Contains(Output(r.diagnostics), <<"error TS", "1">>)
             THEN Verdict(FALSE, "debug")
           ELSE Verdict(TRUE, "none")
      [] r.kind = "FileNotFoundError" -> Verdict(TRUE, "debug")
      [] r.kind = "TimeoutExpired" -> Verdict(TRUE, "warning")
      [] OTHER -> Verdict(TRUE, "debug")

\* the mutation target: a Go validator that fails closed on a timeout
validate_go_syntax_fail_closed(r) ==
    CASE r.kind = "exit" -> Verdict(r.returncode = 0, "none")
      [] r.kind = "FileNotFoundError" -> Verdict(TRUE, "debug")
      [] r.kind = "TimeoutExpired" -> Verdict(FALSE, "warning")
      [] OTHER -> Verdict(TRUE, "debug")

\* lines 571-595
validate_go_syntax(r) ==
    CASE r.kind = "exit" -> Verdict(r.returncode = 0, "none")
      [] r.kind = "FileNotFoundError" -> Verdict(TRUE, "debug")
      [] r.kind = "TimeoutExpired" -> Verdict(TRUE, "warning")
      [] OTHER -> Verdict(TRUE, "debug")

\* lines 597-633
validate_java_syntax(r) ==
    CASE r.kind = "exit" ->
           IF r.returncode = 0 THEN Verdict(TRUE, "none")
           ELSE LET stderr == Output(r.diagnostics)
                IN IF /\ Contains(stderr, <<"error:">>)
                      /\ ~Contains(stderr, <<"cannot find symbol">>)
                     THEN Verdict(FALSE, "debug")
                     ELSE Verdict(TRUE, "none")
      [] r.kind = "FileNotFoundError" -> Verdict(TRUE, "debug")
      [] r.kind = "TimeoutExpired" -> Verdict(TRUE, "warning")
      [] OTHER -> Verdict(TRUE, "debug")

\* lines 634-690; cargo check and rustc are handled alike
validate_rust_syntax(r) ==
    CASE r.kind = "exit" ->
           IF r.returncode = 0 THEN Verdict(TRUE, "none")
           ELSE LET stderr == Output(r.diagnostics)
                IN IF /\ Contains(stderr, <<"error[E">>)
                      /\ ~Contains(stderr, <<"cannot find">>)
                     THEN Verdict(FALSE, "debug")
                     ELSE Verdict(TRUE, "none")
      [] r.kind = "FileNotFoundError" -> Verdict(TRUE, "debug")
      [] r.kind = "TimeoutExpired" -> Verdict(TRUE, "warning")
      [] OTHER -> Verdict(TRUE, "debug")

SyntaxInit ==
    /\ suffix \in Suffixes
    /\ run \in Runs(suffix)
    /\ vpc = "call"
    /\ syntax_ok = <<>>
    /\ syntax_log = "none"

\* _validate_syntax returns what the validator v returned
Validated(v) ==
    /\ syntax_ok' = <<v.ok>>
    /\ syntax_log' = v.log
    /\ vpc' = "done"
    /\ UNCHANGED <<suffix, run>>
    /\ UNCHANGED <<ovars, avars, pvars, lvars>>

\* lines 467-468
ValidateJsSyntax ==
    /\ vpc = "call"
    /\ suffix \in {".js", ".jsx"}
    /\ Validated(validate_js_syntax(run))

\* lines 469-470
ValidateTsSyntax ==
    /\ vpc = "call"
    /\ suffix \in {".ts", ".tsx"}
    /\ Validated(validate_ts_syntax(run))

\* lines 471-472
ValidateGoSyntax ==
    /\ vpc = "call"
    /\ suffix = ".go"
    /\ Validated(validate_go_syntax(run))

\* lines 473-474
ValidateJavaSyntax ==
    /\ vpc = "call"
    /\ suffix = ".java"
    /\ Validated(validate_java_syntax(run))

\* lines 475-476
ValidateRustSyntax ==
    /\ vpc = "call"
    /\ suffix = ".rs"
    /\ Validated(validate_rust_syntax(run))

NextSyntax ==
    \/ ValidateJsSyntax
    \/ ValidateTsSyntax
    \/ ValidateGoSyntax
    \/ ValidateJavaSyntax
    \/ ValidateRustSyntax

\* ------------------------------------------------------------------------
\* Properties of the syntax verifier (checked under SpecSyntax)
\* ------------------------------------------------------------------------
TimedOut == vpc = "done" /\ run.kind = "TimeoutExpired"

\* C34: for every language with an external checker (JavaScript,
\* TypeScript, Go, Java, Rust) a checker timeout is resolved fail-open:
\* _validate_syntax returns True, with a warning logged.
C34_TimeoutFailsOpen ==
    TimedOut => (syntax_ok = <<TRUE>> /\ syntax_log = "warning")

\* C34 as amended: for TypeScript, Go, Java and Rust a checker timeout makes
\* _validate_syntax return True with a warning logged; for JavaScript a
\* checker timeout makes it return False with a warning logged.
C34_TimeoutFailsOpenExceptJavaScript ==
    TimedOut =>
        /\ syntax_log = "warning"
        /\ syntax_ok = <<suffix \notin {".js", ".jsx"}>>

\* C34 witness: the Go checker timed out and the file was accepted
C34_Witness ==
    /\ TimedOut
    /\ suffix = ".go"
    /\ syntax_ok = <<TRUE>>

\* the validators that tolerate some diagnostics of a failing run (lines
\* 554-559, 618-623, 676-681); the Go validator rejects every failing run
Tolerant(sfx) == sfx \in {".ts", ".tsx", ".java", ".rs"}

SyntaxErrorReported ==
    \E i \in 1..Len(run.diagnostics) : run.diagnostics[i].about = "syntax"

\* C35: for TypeScript, Go, Java and Rust a failing checker run whose
\* diagnostics include a syntax error makes _validate_syntax return False,
\* also when the same output holds tolerated out-of-context diagnostics and
\* whatever form the syntax diagnostic takes; a failing run whose
\* diagnostics are only tolerated ones returns True.
C35_SyntaxErrorAlwaysRejects ==
    (/\ vpc = "done"
     /\ suffix \in {".ts", ".tsx", ".go", ".java", ".rs"}
     /\ run.kind = "exit"
     /\ run.returncode # 0) =>
        IF SyntaxErrorReported
          THEN syntax_ok = <<FALSE>>
          ELSE Tolerant(suffix) => syntax_ok = <<TRUE>>

\* ========================================================================
\* The clone's branches and working tree along the pipeline: RepoManager
\* create_branch, commit_changes, push_branch, cleanup_branch (SpecGit)
\* ========================================================================
\* The clone holds the target file with one content per branch tip and one
\* in the working tree; contents are numbers.
Contents == 1..NumContents
Branches == {"main", "fix", "origin/fix"}

\* the file has a modification that is not committed
Dirty == worktree # tip[head]

\* the clone after clone_or_pull (repo_manager.py 257-287: default branch
\* checked out, reset --hard): clean, on the default branch
GitInit ==
    /\ gcfg \in [dry_run : BOOLEAN, run_tests : BOOLEAN]
    /\ gfix \in Contents
    /\ gpc = "branch"
    /\ head = "main"
    /\ branches = {"main"}
    /\ \E c \in Contents \ {gfix} :
         /\ tip = [b \in Branches |-> IF b = "main" THEN c ELSE 0]
         /\ worktree = c
    /\ gexit = None

\* repo_manager.py 304-331: git checkout -b from the default branch
GitCreateBranch ==
    /\ gpc = "branch"
    /\ \E created \in BOOLEAN :
         IF created
           THEN /\ head' = "fix"
                /\ branches' = branches \cup {"fix"}
                /\ tip' = [tip EXCEPT !["fix"] = tip[head]]
                /\ gpc' = "apply"
                /\ gexit' = gexit
           ELSE /\ gpc' = "recorded"
                /\ gexit' = "branch"
                /\ UNCHANGED <<head, branches, tip>>
    /\ UNCHANGED <<gcfg, gfix, worktree>>
    /\ UNCHANGED <<ovars, avars, pvars, rvars>>

\* main.py 313-327: apply_fix writes the fixed content to the file, or
\* leaves it as it was and returns False
GitApplyFix ==
    /\ gpc = "apply"
    /\ \E applied \in BOOLEAN :
         IF applied
           THEN /\ worktree' = gfix
                /\ gpc' = IF gcfg.run_tests THEN "tests" ELSE "commit"
                /\ gexit' = gexit
           ELSE /\ worktree' = worktree
                /\ gpc' = "cleanup"
                /\ gexit' = "apply"
    /\ UNCHANGED <<gcfg, gfix, head, branches, tip>>
    /\ UNCHANGED <<ovars, avars, pvars, rvars>>

\* main.py 330-356: the post-fix tests
GitRunTests ==
    /\ gpc = "tests"
    /\ \E status \in {"skipped", "passed", "failed", "timeout"} :
         LET test_result == TestResult(status) IN
           IF test_result.ran /\ ~test_result.passed
             THEN gpc' = "cleanup" /\ gexit' = "tests"
             ELSE gpc' = "commit" /\ gexit' = gexit
    /\ UNCHANGED <<gcfg, gfix, head, branches, tip, worktree>>
    /\ UNCHANGED <<ovars, avars, pvars, rvars>>

\* repo_manager.py 333-361 and main.py 360-386: git add and git commit put
\* the working-tree content on the branch; then the dry-run exit
GitCommitChanges ==
    /\ gpc = "commit"
    /\ \E committed \in BOOLEAN :
         IF committed
           THEN /\ tip' = [tip EXCEPT ![head] = worktree]
                /\ IF gcfg.dry_run
                     THEN gpc' = "cleanup" /\ gexit' = "dry_run"
                     ELSE gpc' = "push" /\ gexit' = gexit
           ELSE /\ tip' = tip
                /\ gpc' = "cleanup"
                /\ gexit' = "commit"
    /\ UNCHANGED <<gcfg, gfix, head, branches, worktree>>
    /\ UNCHANGED <<ovars, avars, pvars, rvars>>

\* repo_manager.py 363-381 and main.py 389-398: origin.push
GitPushBranch ==
    /\ gpc = "push"
    /\ \E pushed \in BOOLEAN :
         IF pushed
           THEN /\ branches' = branches \cup {"origin/fix"}
                /\ tip' = [tip EXCEPT !["origin/fix"] = tip[head]]
                /\ gpc' = "create_pr"
                /\ gexit' = gexit
           ELSE /\ gpc' = "cleanup"
                /\ gexit' = "push"
                /\ UNCHANGED <<branches, tip>>
    /\ UNCHANGED <<gcfg, gfix, head, worktree>>
    /\ UNCHANGED <<ovars, avars, pvars, rvars>>

\* main.py 404-453: create_pr
GitCreatePr ==
    /\ gpc = "create_pr"
    /\ \E pr_result \in {"created", "failed", "RateLimitExhausted"} :
         IF pr_result = "created"
           THEN gpc' = "recorded" /\ gexit' = "success"
           ELSE gpc' = "cleanup" /\ gexit' = "create_pr"
    /\ UNCHANGED <<gcfg, gfix, head, branches, tip, worktree>>
    /\ UNCHANGED <<ovars, avars, pvars, rvars>>

\* git checkout <branch>: refused when a modified file differs between the
\* two branches; otherwise the branch is checked out and a modification
\* that is not committed stays in the working tree
checkout_refused(target) == Dirty /\ tip[target] # tip[head]

checkout_worktree(target) == IF Dirty THEN worktree ELSE tip[target]

\* repo_manager.py 383-404: cleanup_branch: git checkout of the default
\* branch and git branch -D in one try block, then with remote=True (the
\* exits after the push) the deletion of the pushed branch; GitCommandError
\* is caught in both
GitCleanupBranch ==
    /\ gpc = "cleanup"
    /\ \E checkout_ok \in BOOLEAN, delete_ok \in BOOLEAN, remote_ok \in BOOLEAN :
         LET checked_out == checkout_ok /\ ~checkout_refused("main")
             deleted == checked_out /\ delete_ok
             remote == gexit = "create_pr"
             local == IF deleted THEN branches \ {"fix"} ELSE branches
         IN /\ head' = IF checked_out THEN "main" ELSE head
            /\ worktree' = IF checked_out THEN checkout_worktree("main")
                                          ELSE worktree
            /\ branches' = IF remote /\ remote_ok
                             THEN local \ {"origin/fix"} ELSE local
    /\ gpc' = "recorded"
    /\ UNCHANGED <<gcfg, gfix, tip, gexit>>
    /\ UNCHANGED <<ovars, avars, pvars, rvars>>

NextGit ==
    \/ GitCreateBranch
    \/ GitApplyFix
    \/ GitRunTests
    \/ GitCommitChanges
    \/ GitPushBranch
    \/ GitCreatePr
    \/ GitCleanupBranch

\* C36: when the post-fix tests ran and did not pass, the change apply_fix
\* wrote to the target file is reverted: after cleanup_branch and the
\* records the working-tree file holds its pre-fix content again
C36_FailedTestsRevertTheFile ==
    (gpc = "recorded" /\ gexit = "tests") => worktree = tip["main"]

\* ========================================================================
\* Rate Limiter: GitHubRateLimiter.throttle and _check_quota
\* ========================================================================
Threads == 1..NumThreads

\* self._min_delay, in clock ticks
min_delay == 2

\* the first reading of time.time(): seconds since 1970, far above min_delay
Epoch == 10

Max(a, b) == IF a >= b THEN a ELSE b

\* what the try block of _check_quota meets: get_rate_limit() raises (the
\* API is down), the answer is malformed (rate.remaining is None and the
\* comparison raises TypeError, rate.reset is None and .timestamp() raises
\* AttributeError), or it reports the remaining core quota and the instant
\* at which the quota resets
QuotaErrors == {"GithubException", "TypeError", "AttributeError"}

QuotaReadings(t) ==
    [ok : {FALSE}, remaining : {0}, reset : {0}, error : QuotaErrors]
    \cup [ok : {TRUE}, remaining : {0, 1, 9, 10}, reset : {t - 2, t + 3},
          error : {"none"}]

NoOutcome ==
    [kind |-> "none", log |-> "none", wait_seconds |-> 0,
     ok |-> FALSE, remaining |-> 0, until_reset |-> 0, error |-> "none"]

\* the mutation target: a quota check that raises below the low-water mark
check_quota_low_water(q, t) ==
    IF q.ok /\ q.remaining < 10
      THEN [kind |-> "raised", log |-> "warning",
            wait_seconds |-> Max(q.reset - t, 0) + 5, ok |-> TRUE,
            remaining |-> q.remaining, until_reset |-> q.reset - t,
            error |-> q.error]
      ELSE [kind |-> "returned", log |-> "none", wait_seconds |-> 0,
            ok |-> q.ok, remaining |-> q.remaining, until_reset |-> 0,
            error |-> q.error]

\* the mutation target: a quota check that lets every exception out
check_quota_unguarded(q, t) ==
    IF ~q.ok
      THEN [kind |-> "raised", log |-> "none", wait_seconds |-> 0,
            ok |-> FALSE, remaining |-> 0, until_reset |-> 0,
            error |-> q.error]
      ELSE [kind |-> "returned", log |-> "none", wait_seconds |-> 0,
            ok |-> TRUE, remaining |-> q.remaining, until_reset |-> q.reset - t,
            error |-> q.error]

\* _check_quota with the reading q at clock t: how the call ends, what it
\* logs and the wait_seconds it computed, with the reading it was given
\* (until_reset is reset_time - time.time() of line 75)
check_quota(q, t) ==
    IF ~q.ok
      THEN [kind |-> "returned", log |-> "debug", wait_seconds |-> 0,
            ok |-> FALSE, remaining |-> 0, until_reset |-> 0,
            error |-> q.error]
    ELSE IF q.remaining < 10
      THEN LET wait_seconds == Max(q.reset - t, 0) + 5
           IN IF q.remaining = 0
                THEN [kind |-> "raised", log |-> "warning",
                      wait_seconds |-> wait_seconds, ok |-> TRUE,
                      remaining |-> q.remaining, until_reset |-> q.reset - t,
            error |-> q.error]
                ELSE [kind |-> "returned", log |-> "info",
                      wait_seconds |-> wait_seconds, ok |-> TRUE,
                      remaining |-> q.remaining, until_reset |-> q.reset - t,
            error |-> q.error]
    ELSE [kind |-> "returned", log |-> "none", wait_seconds |-> 0,
          ok |-> TRUE, remaining |-> q.remaining, until_reset |-> q.reset - t,
            error |-> q.error]

ThrottleInit ==
    /\ now = Epoch
    /\ last_call = 0
    /\ lock = 0
    /\ tpc = [t \in Threads |-> "idle"]
    /\ remaining_delay = [t \in Threads |-> 0]
    /\ wake = [t \in Threads |-> 0]
    /\ stamps = <<>>
    /\ shutdown_event = FALSE
    /\ throttle_result = [t \in Threads |-> NoOutcome]

\* the wall clock advances
Tick ==
    /\ now < Epoch + MaxTicks
    /\ now' = now + 1
    /\ UNCHANGED <<last_call, lock, tpc, remaining_delay, wake, stamps,
                   shutdown_event, throttle_result>>
    /\ UNCHANGED <<ovars, avars, pvars, zvars>>

\* main.py 744: the signal handler sets the event the limiter waits on
SetShutdownEvent ==
    /\ ~shutdown_event
    /\ shutdown_event' = TRUE
    /\ UNCHANGED <<now, last_call, lock, tpc, remaining_delay, wake, stamps,
                   throttle_result>>
    /\ UNCHANGED <<ovars, avars, pvars, zvars>>

\* line 53: with self._lock
ThrottleLock(t) ==
    /\ tpc[t] = "idle"
    /\ lock = 0
    /\ lock' = t
    /\ tpc' = [tpc EXCEPT ![t] = "locked"]
    /\ UNCHANGED <<now, last_call, remaining_delay, wake, stamps,
                   shutdown_event, throttle_result>>
    /\ UNCHANGED <<ovars, avars, pvars, zvars>>

\* lines 54-56: elapsed = time.time() - self._last_call and the test
ThrottleElapsed(t) ==
    /\ tpc[t] = "locked"
    /\ LET elapsed == now - last_call
       IN IF elapsed < min_delay
            THEN /\ remaining_delay' = [remaining_delay EXCEPT ![t] = min_delay - elapsed]
                 /\ tpc' = [tpc EXCEPT ![t] = "wait"]
            ELSE /\ remaining_delay' = remaining_delay
                 /\ tpc' = [tpc EXCEPT ![t] = "stamp"]
    /\ UNCHANGED <<now, last_call, lock, wake, stamps, shutdown_event, throttle_result>>
    /\ UNCHANGED <<ovars, avars, pvars, zvars>>

\* line 58: self._shutdown_event.wait(timeout=remaining_delay) is entered
ThrottleWait(t) ==
    /\ tpc[t] = "wait"
    /\ wake' = [wake EXCEPT ![t] = now + remaining_delay[t]]
    /\ remaining_delay' = [remaining_delay EXCEPT ![t] = 0]
    /\ tpc' = [tpc EXCEPT ![t] = "waiting"]
    /\ UNCHANGED <<now, last_call, lock, stamps, shutdown_event, throttle_result>>
    /\ UNCHANGED <<ovars, avars, pvars, zvars>>

\* Event.wait returns: the event is set, or the timeout has expired
wait_over_at_once(t) == TRUE

wait_over_on_timeout_only(t) == now >= wake[t]

wait_over(t) == shutdown_event \/ now >= wake[t]

ThrottleWake(t) ==
    /\ tpc[t] = "waiting"
    /\ wait_over(t)
    /\ tpc' = [tpc EXCEPT ![t] = "stamp"]
    /\ UNCHANGED <<now, last_call, lock, remaining_delay, wake, stamps,
                   shutdown_event, throttle_result>>
    /\ UNCHANGED <<ovars, avars, pvars, zvars>>

\* line 59 and the end of the with-block: self._last_call = time.time(),
\* the lock is released
ThrottleStamp(t) ==
    /\ tpc[t] = "stamp"
    /\ last_call' = now
    /\ stamps' = IF Len(stamps) < 2 THEN Append(stamps, now)
                                    ELSE <<stamps[2], now>>
    /\ lock' = 0
    /\ tpc' = [tpc EXCEPT ![t] = "quota"]
    /\ UNCHANGED <<now, remaining_delay, wake, shutdown_event, throttle_result>>
    /\ UNCHANGED <<ovars, avars, pvars, zvars>>

\* line 61: self._check_quota() with what get_rate_limit() answers
ThrottleCheckQuota(t) ==
    /\ tpc[t] = "quota"
    /\ \E q \in QuotaReadings(now) :
         throttle_result' = [throttle_result EXCEPT ![t] = check_quota(q, now)]
    /\ tpc' = [tpc EXCEPT ![t] = "leaving"]
    /\ UNCHANGED <<now, last_call, lock, remaining_delay, wake, stamps,
                   shutdown_event>>
    /\ UNCHANGED <<ovars, avars, pvars, zvars>>

\* throttle() has returned or raised into its caller
ThrottleLeave(t) ==
    /\ tpc[t] = "leaving"
    /\ throttle_result' = [throttle_result EXCEPT ![t] = NoOutcome]
    /\ wake' = [wake EXCEPT ![t] = 0]
    /\ tpc' = [tpc EXCEPT ![t] = "idle"]
    /\ UNCHANGED <<now, last_call, lock, remaining_delay, stamps, shutdown_event>>
    /\ UNCHANGED <<ovars, avars, pvars, zvars>>

\* the timeouts wait_for_reset is called with, in clock ticks
ResetWaits == {1, 3}

\* lines 102-103: self._shutdown_event.wait(timeout=wait_seconds) is entered
WaitForResetEnter(t) ==
    /\ tpc[t] = "idle"
    /\ \E wait_seconds \in ResetWaits :
         wake' = [wake EXCEPT ![t] = now + wait_seconds]
    /\ tpc' = [tpc EXCEPT ![t] = "reset_waiting"]
    /\ UNCHANGED <<now, last_call, lock, remaining_delay, stamps,
                   shutdown_event, throttle_result>>
    /\ UNCHANGED <<ovars, avars, pvars, zvars>>

\* what Event.wait(timeout) answers when it returns: True when the event
\* ended the wait, False when the timeout did (either when the event is set
\* as the timeout expires)
event_wait(t) ==
    {flag \in BOOLEAN : IF flag THEN shutdown_event ELSE now >= wake[t]}

\* line 104: return not interrupted
wait_for_reset(interrupted) ==
    [NoOutcome EXCEPT !.kind = IF ~interrupted THEN "True" ELSE "False"]

\* lines 103-104: the wait returns and wait_for_reset returns its answer
WaitForResetReturn(t) ==
    /\ tpc[t] = "reset_waiting"
    /\ wait_over(t)
    /\ \E interrupted \in event_wait(t) :
         throttle_result' = [throttle_result EXCEPT ![t] = wait_for_reset(interrupted)]
    /\ tpc' = [tpc EXCEPT ![t] = "reset_done"]
    /\ UNCHANGED <<now, last_call, lock, remaining_delay, wake, stamps,
                   shutdown_event>>
    /\ UNCHANGED <<ovars, avars, pvars, zvars>>

\* wait_for_reset has returned into its caller
WaitForResetLeave(t) ==
    /\ tpc[t] = "reset_done"
    /\ throttle_result' = [throttle_result EXCEPT ![t] = NoOutcome]
    /\ wake' = [wake EXCEPT ![t] = 0]
    /\ tpc' = [tpc EXCEPT ![t] = "idle"]
    /\ UNCHANGED <<now, last_call, lock, remaining_delay, stamps, shutdown_event>>
    /\ UNCHANGED <<ovars, avars, pvars, zvars>>

NextThrottle ==
    \/ Tick
    \/ SetShutdownEvent
    \/ \E t \in Threads : ThrottleLock(t)
    \/ \E t \in Threads : ThrottleElapsed(t)
    \/ \E t \in Threads : ThrottleWait(t)
    \/ \E t \in Threads : ThrottleWake(t)
    \/ \E t \in Threads : ThrottleStamp(t)
    \/ \E t \in Threads : ThrottleCheckQuota(t)
    \/ \E t \in Threads : ThrottleLeave(t)
    \/ \E t \in Threads : WaitForResetEnter(t)
    \/ \E t \in Threads : WaitForResetReturn(t)
    \/ \E t \in Threads : WaitForResetLeave(t)

\* ------------------------------------------------------------------------
\* Properties of the rate limiter (checked under SpecThrottle)
\* ------------------------------------------------------------------------
\* C12: for every interleaving of the threads calling throttle(), while
\* shutdown is not requested any two successive values recorded in
\* _last_call, the instants at which the gate lets a caller through, are at
\* least min_delay apart.
C12_StampsMinDelayApart ==
    ~shutdown_event =>
        \A i \in 1..(Len(stamps) - 1) :
            stamps[i + 1] - stamps[i] >= min_delay

\* C12 witness: two threads passed the gate one after the other, the second
\* after a timed wait that ended exactly min_delay after the first
C12_Witness ==
    /\ ~shutdown_event
    /\ Len(stamps) = 2
    /\ stamps[2] - stamps[1] = min_delay
    /\ \E t, u \in Threads :
          /\ t # u
          /\ tpc[t] = "quota" /\ wake[t] = stamps[2]
          /\ tpc[u] = "leaving"

\* C13: throttle() raises RateLimitExhausted exactly when the remaining
\* quota it read is 0; with 1 to 9 remaining it logs and returns normally
\* (as it does with 10 or more, and when the quota could not be read); the
\* raised signal carries wait_seconds = max(reset_time - now, 0) + 5, which
\* is strictly positive.
C13_ExhaustedExactlyAtZero ==
    \A t \in Threads :
        tpc[t] = "leaving" =>
            LET o == throttle_result[t]
            IN /\ o.kind \in {"raised", "returned"}
               /\ o.kind = "raised" <=> (o.ok /\ o.remaining = 0)
               /\ (o.ok /\ o.remaining \in 1..9) =>
                      (o.kind = "returned" /\ o.log = "info")
               /\ o.kind = "raised" =>
                      /\ o.wait_seconds = 5 + (IF o.until_reset > 0
                                                 THEN o.until_reset ELSE 0)
                      /\ o.wait_seconds > 0

\* C13 witness: throttle() raised on an exhausted quota whose reset instant
\* is already past, while another call returned normally with 9 remaining
C13_Witness ==
    \E t, u \in Threads :
        /\ tpc[t] = "leaving" /\ tpc[u] = "leaving"
        /\ throttle_result[t].kind = "raised"
        /\ throttle_result[t].until_reset < 0
        /\ throttle_result[t].wait_seconds = 5
        /\ throttle_result[u].kind = "returned"
        /\ throttle_result[u].remaining = 9

\* the parts of C21 that do not depend on how long the wait lasts: a caller
\* enters the wait only when less than min_delay has elapsed since
\* _last_call, and its wait has the timeout min_delay - elapsed; a caller
\* that finds min_delay elapsed goes straight on, as does the first caller
\* of a fresh limiter
WaitsOnlyWhenTooSoon ==
    /\ [][ \A t \in Threads : (tpc[t] = "locked" /\ tpc'[t] # "locked") =>
              IF now - last_call < min_delay
                THEN /\ tpc'[t] = "wait"
                     /\ remaining_delay'[t] = min_delay - (now - last_call)
                ELSE tpc'[t] = "stamp" ]_vars
    /\ [][ \A t \in Threads : (tpc[t] = "wait" /\ tpc'[t] = "waiting") =>
              wake'[t] = now + remaining_delay[t] ]_vars
    /\ [][ \A t \in Threads : (tpc[t] = "locked" /\ stamps = <<>>) =>
              tpc'[t] \in {"locked", "stamp"} ]_vars

\* C21: throttle() waits only when less than min_delay has elapsed since
\* the recorded call, and a caller that waits is released no earlier than
\* the end of the remaining delay; the first call on a fresh limiter and a call made after min_delay do not wait.
C21_BlocksForRemainingDelay ==
    /\ WaitsOnlyWhenTooSoon
    /\ [][ \A t \in Threads : (tpc[t] = "waiting" /\ tpc'[t] = "stamp") =>
              now >= wake[t] ]_vars

\* C21 as amended: the same, except that a caller is released before the
\* end of the remaining delay when the shutdown event is set.
C21_BlocksForRemainingDelayUnlessShutdown ==
    /\ WaitsOnlyWhenTooSoon
    /\ [][ \A t \in Threads : (tpc[t] = "waiting" /\ tpc'[t] = "stamp") =>
              (now >= wake[t] \/ shutdown_event) ]_vars

\* C21 witness: a second caller, one tick after the first call, has waited
\* the remaining tick and is released exactly min_delay after that call,
\* with no shutdown
C21_Witness ==
    \E t \in Threads :
        /\ tpc[t] = "stamp"
        /\ ~shutdown_event
        /\ Len(stamps) = 1
        /\ wake[t] = stamps[1] + min_delay
        /\ now = wake[t]

\* C33: a shutdown request unblocks every wait in the rate limiter: a
\* thread waiting inside throttle() for the remaining delay, or inside
\* wait_for_reset(), can return from its wait as soon as the shutdown event
\* is set; wait_for_reset returns False when the wait was cut short and True
\* only when the full wait elapsed; and the thread released inside throttle()
\* holds the mutex and gives it up at its next step, so that no other
\* thread stays blocked behind it
C33_ShutdownUnblocksEveryWait ==
    /\ [](\A t \in Threads :
            /\ (shutdown_event /\ tpc[t] = "waiting") => ENABLED ThrottleWake(t)
            /\ (shutdown_event /\ tpc[t] = "reset_waiting") =>
                   ENABLED WaitForResetReturn(t)
            /\ tpc[t] \in {"waiting", "stamp"} => lock = t
            /\ tpc[t] = "stamp" => ENABLED ThrottleStamp(t)
            /\ tpc[t] \in {"reset_waiting", "reset_done"} => lock # t)
    /\ [][ \A t \in Threads :
            /\ (tpc[t] = "waiting" /\ tpc'[t] # "waiting") => tpc'[t] = "stamp"
            /\ (tpc[t] = "stamp" /\ tpc'[t] # "stamp") => lock' = 0
            /\ (tpc[t] = "reset_waiting" /\ tpc'[t] # "reset_waiting") =>
                   /\ tpc'[t] = "reset_done"
                   /\ throttle_result'[t].kind \in {"True", "False"}
                   /\ throttle_result'[t].kind = "True" => now >= wake[t]
                   /\ throttle_result'[t].kind = "False" => shutdown_event
                   /\ now < wake[t] => throttle_result'[t].kind = "False" ]_vars

\* C33 witness: the shutdown event is set while one thread waits inside
\* throttle() before the end of its remaining delay and the other has come
\* back from wait_for_reset with False before its timeout
C33_Witness ==
    \E t, u \in Threads :
        /\ shutdown_event
        /\ tpc[t] = "stamp" /\ now < wake[t]
        /\ tpc[u] = "reset_done" /\ now < wake[u]
        /\ throttle_result[u].kind = "False"

\* C39: any failure while querying the quota other than the exhaustion
\* signal (an API error, malformed rate-limit data) is swallowed: throttle()
\* returns normally, the last-call timestamp having been recorded and the
\* mutex released before the query, and the caller proceeds
C39_QuotaFailureSwallowed ==
    /\ [](\A t \in Threads :
            (tpc[t] = "leaving" /\ throttle_result[t].error # "none") =>
                /\ throttle_result[t].kind = "returned"
                /\ throttle_result[t].log = "debug"
                /\ lock # t
                /\ stamps # <<>>
                /\ last_call > 0)
    /\ [][ \A t \in Threads :
            /\ (tpc[t] # "quota" /\ tpc'[t] = "quota") =>
                   (tpc[t] = "stamp" /\ last_call' = now /\ lock' = 0)
            /\ (tpc[t] # "leaving" /\ tpc'[t] = "leaving") => tpc[t] = "quota"
            /\ (tpc[t] = "quota" /\ tpc'[t] # "quota") => last_call' = last_call
            /\ (tpc[t] = "leaving" /\ tpc'[t] # "leaving") => tpc'[t] = "idle" ]_vars

\* C39 witness: one call of throttle() is returning after the API raised
\* and another after malformed rate-limit data
C39_Witness ==
    \E t, u \in Threads :
        /\ tpc[t] = "leaving" /\ tpc[u] = "leaving"
        /\ throttle_result[t].error = "GithubException"
        /\ throttle_result[u].error = "TypeError"
        /\ throttle_result[t].kind = "returned"
        /\ throttle_result[u].kind = "returned"
        /\ Len(stamps) = 2

\* ========================================================================
\* Deadline Enforcer: DeadlineEnforcer (SpecDeadline)
\* ========================================================================
\* Instants are minutes counted from 00:00 of day 0 in the enforcer's time
\* zone; seconds below the minute and clock changes of the zone are left
\* out.
MinutesPerDay == 1440

\* minutes between two readings of the clock
ClockStep == 10

Midnight(t) == (t \div MinutesPerDay) * MinutesPerDay
HourOf(t) == (t % MinutesPerDay) \div 60

\* the configured cutoffs: every full hour, and two half hours
DeadlineTimes == {<<h, 0>> : h \in 0..23} \cup {<<5, 30>>, <<12, 30>>}

\* the times of day at which a cycle starts: every half hour, and 23:50
StartTimes == {h * 60 + m : h \in 0..23, m \in {0, 30}} \cup {23 * 60 + 50}

\* now.replace(hour=self.deadline_hour, minute=self.deadline_minute,
\* second=0, microsecond=0)
replace(t, hm) == Midnight(t) + hm[1] * 60 + hm[2]

\* the mutation target: the check without its evening branch
is_past_deadline_same_day(t, hm) == replace(t, hm) <= t

\* scheduler.py 181-210
is_past_deadline(t, hm) ==
    LET deadline == replace(t, hm) IN
      IF deadline <= t /\ hm[1] < 12 /\ HourOf(t) >= 18 THEN FALSE
      ELSE IF deadline <= t /\ HourOf(t) < 12 THEN TRUE
      ELSE IF deadline > t THEN FALSE
      ELSE t >= deadline

\* scheduler.py 212-233; the answer is <<seconds>>, or <<>> for None
time_remaining(t, hm) ==
    LET deadline == IF hm[1] < 12 /\ HourOf(t) >= 12
                      THEN replace(t, hm) + MinutesPerDay
                      ELSE replace(t, hm)
        remaining == (deadline - t) * 60
    IN  IF remaining > 0 THEN <<remaining>> ELSE <<>>

\* DeadlineEnforcer.__init__ (scheduler.py 142-151); the clock shows the time
\* of day at which the cycle is about to start
DeadlineInit ==
    /\ clock \in StartTimes
    /\ deadline_time \in DeadlineTimes
    /\ review_started_at = <<>>
    /\ past = None
    /\ time_left = <<>>
    /\ seen_past = FALSE

\* mark_review_started(), called by run_review (main.py 96): records the
\* anchor instant of the cycle
MarkReviewStarted ==
    /\ review_started_at = <<>>
    /\ review_started_at' = <<clock>>
    /\ UNCHANGED <<clock, deadline_time, past, time_left, seen_past>>
    /\ UNCHANGED <<ovars, avars, pvars, wvars>>

\* a call of is_past_deadline() during the cycle
IsPastDeadline ==
    /\ review_started_at # <<>>
    /\ past = None
    /\ past' = IF is_past_deadline(clock, deadline_time) THEN "True" ELSE "False"
    /\ UNCHANGED <<clock, deadline_time, review_started_at, time_left, seen_past>>
    /\ UNCHANGED <<ovars, avars, pvars, wvars>>

\* a call of time_remaining() during the cycle
TimeRemaining ==
    /\ review_started_at # <<>>
    /\ time_left = <<>>
    /\ time_left' = <<time_remaining(clock, deadline_time)>>
    /\ UNCHANGED <<clock, deadline_time, review_started_at, past, seen_past>>
    /\ UNCHANGED <<ovars, avars, pvars, wvars>>

\* the wall clock advances; the answers given belong to the instant left
ClockTick ==
    /\ review_started_at # <<>>
    /\ clock + ClockStep <= review_started_at[1] + MaxCycleHours * 60
    /\ clock' = clock + ClockStep
    /\ seen_past' = (seen_past \/ past = "True")
    /\ past' = None
    /\ time_left' = <<>>
    /\ UNCHANGED <<deadline_time, review_started_at>>
    /\ UNCHANGED <<ovars, avars, pvars, wvars>>

NextDeadline ==
    \/ MarkReviewStarted
    \/ IsPastDeadline
    \/ TimeRemaining
    \/ ClockTick

\* ------------------------------------------------------------------------
\* Properties of the deadline enforcer (checked under SpecDeadline)
\* ------------------------------------------------------------------------
\* the cycle's deadline instant: the configured time of day on the anchor's
\* date, a day later when that is not after the anchor
CycleDeadline ==
    LET anchor == review_started_at[1]
        same_day == replace(anchor, deadline_time) IN
      IF same_day <= anchor THEN same_day + MinutesPerDay ELSE same_day

Anchored == review_started_at # <<>>

\* is_past_deadline() / time_remaining() has answered at this instant
AskedPast == past # None
AskedLeft == time_left # <<>>

\* C17: the cycle has one deadline instant, fixed when the cycle starts:
\* is_past_deadline() answers True at no instant before it, and after a
\* True answer every later answer of the cycle is True.
C17_DeadlineFixedAtCycleStart ==
    (Anchored /\ AskedPast) =>
        /\ (past = "True" => clock >= CycleDeadline)
        /\ (seen_past => past = "True")

C19_CutoffNotAfterAnchorWrapsToNextDay ==
    (Anchored /\ replace(review_started_at[1], deadline_time) <= review_started_at[1]
              /\ clock = review_started_at[1]) =>
        /\ CycleDeadline = replace(review_started_at[1], deadline_time) + MinutesPerDay
        /\ (AskedPast => past = "False")
        /\ (AskedLeft => time_left[1] # <<>>)

\* C20: the two queries agree on one deadline.  With the cutoff later on the
\* anchor's day: before it is_past_deadline() answers False and
\* time_remaining() the seconds left; at and after it they answer True and
\* None.  At no instant is time_remaining() not None while
\* is_past_deadline() answers True.
C20_QueriesAgreeOnOneDeadline ==
    Anchored =>
      LET same_day == replace(review_started_at[1], deadline_time) IN
        /\ (same_day > review_started_at[1] /\ clock < same_day) =>
              /\ (AskedPast => past = "False")
              /\ (AskedLeft => time_left[1] = <<(same_day - clock) * 60>>)
        /\ (same_day > review_started_at[1] /\ clock >= same_day) =>
              /\ (AskedPast => past = "True")
              /\ (AskedLeft => time_left[1] = <<>>)
        /\ ~(AskedPast /\ AskedLeft /\ past = "True" /\ time_left[1] # <<>>)

\* ------------------------------------------------------------------------
\* Inert values of the variables a specification does not use
\* ------------------------------------------------------------------------
OInert ==
    /\ settings = [max_workers |-> 1, dry_run |-> FALSE, run_tests |-> FALSE,
                   nrepos |-> 0]
    /\ mpc = "idle"
    /\ idx = 0
    /\ fut = [r \in Repos |-> "none"]
    /\ queue = <<>>
    /\ yielded = {}
    /\ ppc = [r \in Repos |-> "none"]
    /\ ret = [r \in Repos |-> "none"]
    /\ records = [r \in Repos |-> <<>>]
    /\ raised = {}
    /\ rejected = {}
    /\ repos_reviewed = 0
    /\ prs_created = 0
    /\ run_status = "none"
    /\ idle = TRUE
    /\ shutdown_requested = FALSE
    /\ deadline_passed = FALSE
    /\ spc = "scheduler"

AInert ==
    /\ fix = None
    /\ file0 = <<>>
    /\ fs = <<>>
    /\ tmp = NoTmp
    /\ apc = "none"
    /\ aret = FALSE
    /\ content = <<>>
    /\ new_content = <<>>
    /\ verdict = None
    /\ io = <<>>

PInert ==
    /\ response = None
    /\ parsed = None
    /\ apply_call = None

TInert ==
    /\ now = 0
    /\ last_call = 0
    /\ lock = 0
    /\ tpc = <<>>
    /\ remaining_delay = <<>>
    /\ wake = <<>>
    /\ stamps = <<>>
    /\ shutdown_event = FALSE
    /\ throttle_result = <<>>

HInert ==
    /\ rate_limited = [r \in Repos |-> "none"]
    /\ calls = [r \in Repos |-> <<>>]
    /\ night = 1
    /\ tracing = FALSE

DInert ==
    /\ clock = 0
    /\ deadline_time = <<0, 0>>
    /\ review_started_at = <<>>
    /\ past = None
    /\ time_left = <<>>
    /\ seen_past = FALSE

JInert ==
    /\ json_text = <<>>
    /\ jpc = "none"
    /\ extracted = <<>>
    /\ embedded = <<>>
    /\ repaired = <<>>
    /\ repaired_twice = <<>>

KInert ==
    /\ rop = "none"
    /\ rcfg = None
    /\ script = <<>>
    /\ ncalls = 0
    /\ attempt = 0
    /\ current_delay = 0
    /\ sleeps = <<>>
    /\ last_exception = 0
    /\ rstatus = "none"

GInert ==
    /\ gcfg = None
    /\ gfix = 0
    /\ gpc = "none"
    /\ head = None
    /\ branches = {}
    /\ tip = <<>>
    /\ worktree = 0
    /\ gexit = None

CInert ==
    /\ suffix = None
    /\ run = None
    /\ vpc = "none"
    /\ syntax_ok = <<>>
    /\ syntax_log = "none"

XInert == TInert /\ HInert /\ DInert /\ JInert /\ KInert /\ GInert /\ CInert

Init == OInit /\ AInert /\ PInert /\ XInert

Next ==
    \/ RunReviewStart
    \/ RunReviewSetup
    \/ RunReviewCheck
    \/ RunReviewSubmit
    \/ RunReviewCollect
    \/ RunReviewCancel
    \/ RunReviewExitPool
    \/ RunReviewComplete
    \/ DeadlinePasses
    \/ WorkerTake
    \/ \E r \in Repos : ProcessRepoClear(r)
    \/ \E r \in Repos : ProcessRepo(r)
    \/ SignalHandler
    \/ StartCheckIdle
    \/ StartWaitIdle
    \/ StartWaitTimeout

Spec == Init /\ [][Next]_vars

InitApply == OInert /\ ApplyInit /\ PInert /\ XInert

SpecApply == InitApply /\ [][NextApply]_vars

InitSize == OInert /\ SizeInit /\ PInert /\ XInert

SpecSize == InitSize /\ [][NextApply]_vars

InitParse == OInert /\ AInert /\ ParseInit /\ XInert

SpecParse == InitParse /\ [][NextParse]_vars

InitThrottle == OInert /\ AInert /\ PInert /\ ThrottleInit /\ HInert /\ DInert /\ JInert /\ KInert /\ GInert /\ CInert

SpecThrottle == InitThrottle /\ [][NextThrottle]_vars

InitNights == NightsInit /\ AInert /\ PInert /\ TInert /\ DInert /\ JInert /\ KInert /\ GInert /\ CInert

SpecNights == InitNights /\ [][NextNights]_vars

InitDeadline == OInert /\ AInert /\ PInert /\ TInert /\ HInert /\ DeadlineInit /\ JInert /\ KInert /\ GInert /\ CInert

SpecDeadline == InitDeadline /\ [][NextDeadline]_vars

InitJson ==
    OInert /\ AInert /\ PInert /\ TInert /\ HInert /\ DInert /\ JsonInit /\ KInert /\ GInert /\ CInert

SpecJson == InitJson /\ [][NextJson]_vars

InitRetry ==
    OInert /\ AInert /\ PInert /\ TInert /\ HInert /\ DInert /\ JInert /\ RetryInit /\ GInert /\ CInert

SpecRetry == InitRetry /\ [][NextRetry]_vars

InitGit ==
    OInert /\ AInert /\ PInert /\ TInert /\ HInert /\ DInert /\ JInert /\ KInert /\ GitInit /\ CInert

SpecGit == InitGit /\ [][NextGit]_vars

InitSyntax ==
    OInert /\ AInert /\ PInert /\ TInert /\ HInert /\ DInert /\ JInert /\ KInert /\ GInert /\ SyntaxInit

SpecSyntax == InitSyntax /\ [][NextSyntax]_vars
====
